---- MODULE Spec2Model ----
(***************************************************************************)
(* A model of ratchet.  Its components, each with its own specification:   *)
(* the MCP request handler below, then the REST execution handlers, the    *)
(* registry bridge, the repository service, the core error metadata, the   *)
(* HTTP recording, the JavaScript conversions, the authentication          *)
(* middleware, the task executor and the MCP service, each introduced      *)
(* where its definitions begin.                                            *)
(*                                                                         *)
(* The MCP request handler                                                 *)
(* (ratchet-mcp/src/server/handler.rs): tools/list with its cursor         *)
(* pagination, tools/call with its permission check, batch, the            *)
(* single-request dispatcher and the McpError -> JsonRpcError conversion.  *)
(*                                                                         *)
(* A handler is modelled as a function from the correlation manager's      *)
(* state, the request's params and the security context to an outcome:     *)
(* the result it returns, the calls it made on its collaborators           *)
(* (correlation manager, metrics, audit logger, tool registry) in order,   *)
(* and the correlation manager's state afterwards.                         *)
(***************************************************************************)
EXTENDS Integers, Sequences, FiniteSets, TLC

VARIABLES
    tools,            \* the tool registry's list, in the registry's order
    batchProcessor,   \* whether the handler was built with_batch_processor
    nextRequestId,    \* CorrelationManager: the next fresh request id
    activeRequests,   \* CorrelationManager: ids started and not completed
    call,             \* the handler call whose response is pending: <<>> or <<record>>
    walk,             \* a client's paginated walk over tools/list
    conversion,       \* the last McpError converted to a JsonRpcError: <<>> or <<record>>
    executions,       \* REST API: the execution repository's records, by id
    clock,            \* REST API: the instant chrono::Utc::now() last returned (ms); time only advances
    restResult,       \* REST API: the last handler's response: <<>> or <<status>>
    retried,          \* REST API: the retry request just answered: <<>> or <<record>>
    registry,         \* registry bridge: the task definitions the registry holds
    repositories,     \* registry bridge: whether set_repositories gave it a store
    storeUp,          \* registry bridge: whether the store answers its calls
    taskStore,        \* registry bridge: the task repository's records
    lastSync,         \* registry bridge: what the last sync did: <<>> or <<record>>
    changedSince,     \* registry bridge: whether anything changed since the last sync
    loaded,           \* registry bridge: the last load_task_content: <<>> or <<record>>
    repoDb,           \* repository service: the database's repositories, by id
    nextRepoId,       \* repository service: the id the database gives the next one
    registered,       \* repository service: ids registered with the sync service
    repoSync,         \* repository service: the last operation's call of
                      \* sync_service.sync_repository: <<>> or <<record>>
    security_manager, \* repository service: whether a security manager is set
    repoResult,       \* repository service: the last operation's answer: <<>> or <<record>>
    securityEvents,   \* repository service: the events the last operation logged
    active_repositories, \* repository service: the ids of the active repository instances
    repoCalls,        \* repository service: the progress of each concurrent call
    classified,       \* core errors: the last RatchetError classified: <<>> or <<record>>
    recordingState,   \* HTTP recording: RECORDING_STATE, <<>> or <<RecordingState>>
    harFiles,         \* HTTP recording: the entries of each directory's requests.har
    sessions,          \* HTTP recording: each recording session's progress
    recordingCall,    \* HTTP recording: the last call of a task's recording: <<>> or <<record>>
    finalized,        \* HTTP recording: whether finalize_recording returned since the last set_recording_dir
    jsonFiles,        \* HTTP recording: the input.json / output.json written in each directory
    jsRun,             \* JS conversion: the last input bound and returned: <<>> or <<record>>
    authRun,          \* authentication: the last authenticate call: <<>> or <<record>>
    permitted,         \* authentication: the last AuthContext asked for its permissions: <<>> or <<record>>
    ipcCalls,         \* task executor: the calls issued, each with its pending call and outcome
    ipcPending,       \* task executor: each worker's pending map, the correlation ids registered
    ipcWorking,       \* task executor: the correlation ids each worker is executing
    ipcWire,          \* task executor: the TaskResult frame on each worker's stdout: <<>> or <<id>>
    ipcDelivered,     \* task executor: the TaskResult frames that fulfilled a call, by worker and id
    ipcLast,           \* task executor: the call the last step cancelled: <<>> or <<call>>
    transport,        \* MCP service: config.server_config.transport, "stdio" or "sse"
    server_handle,    \* MCP service: the JoinHandle kept, <<>> or <<task>>
    serverTasks,      \* MCP service: the server tasks spawned, each alive or finished
    stopped,          \* MCP service: whether stop() returned since the last start()
    serviceCall       \* MCP service: the last call answered: <<>> or <<record>>

\* The REST execution handlers' state (ratchet-rest-api/src/handlers/executions.rs).
restVars == <<executions, clock, restResult, retried>>

\* The registry bridge's state (ratchet-server/src/bridges.rs).
bridgeVars == <<registry, repositories, storeUp, taskStore, lastSync, changedSince, loaded>>

\* The repository service's state
\* (ratchet-server/src/repository_services/repository_service.rs).
repoVars == <<repoDb, nextRepoId, registered, repoSync, security_manager, repoResult, securityEvents,
             active_repositories, repoCalls>>

\* The classification of core errors (ratchet-core/src/error.rs).
coreVars == <<classified>>

\* The HTTP recording's state (ratchet-http/src/recording.rs).
recordingVars == <<recordingState, harFiles, sessions, recordingCall, finalized, jsonFiles>>

\* The JavaScript conversions' state (ratchet-js/src/conversion.rs).
jsVars == <<jsRun>>

\* The authentication middleware's state (ratchet-web/src/middleware/auth.rs).
authVars == <<authRun, permitted>>

\* The task executor's state over its workers (ratchet-execution).
ipcVars == <<ipcCalls, ipcPending, ipcWorking, ipcWire, ipcDelivered, ipcLast>>

\* The MCP service's state (ratchet-mcp/src/server/service.rs).
serviceVars == <<transport, server_handle, serverTasks, stopped, serviceCall>>

\* The state outside the MCP request handler.
outside == <<restVars, bridgeVars, repoVars, coreVars, recordingVars, jsVars, authVars, ipcVars, serviceVars>>

\* What no handler changes: the registry, the handler's construction, and
\* the state outside the handler.
config == <<tools, batchProcessor, conversion, outside>>

\* The request handler's state.
handlerState == <<tools, batchProcessor, nextRequestId, activeRequests, call, walk, outside>>

\* The MCP request handler's state and its conversions.
mcpVars == <<tools, batchProcessor, nextRequestId, activeRequests, call, walk, conversion>>

vars == <<mcpVars, outside>>

\* What the operations of one component leave alone: the other components.
notRest == <<mcpVars, bridgeVars, repoVars, coreVars, recordingVars, jsVars, authVars, ipcVars, serviceVars>>
notBridge == <<mcpVars, restVars, repoVars, coreVars, recordingVars, jsVars, authVars, ipcVars, serviceVars>>
notRepo == <<mcpVars, restVars, bridgeVars, coreVars, recordingVars, jsVars, authVars, ipcVars, serviceVars>>
notCore == <<mcpVars, restVars, bridgeVars, repoVars, recordingVars, jsVars, authVars, ipcVars, serviceVars>>
notRecording == <<mcpVars, restVars, bridgeVars, repoVars, coreVars, jsVars, authVars, ipcVars, serviceVars>>
notJs == <<mcpVars, restVars, bridgeVars, repoVars, coreVars, recordingVars, authVars, ipcVars, serviceVars>>
notAuth == <<mcpVars, restVars, bridgeVars, repoVars, coreVars, recordingVars, jsVars, ipcVars, serviceVars>>
notIpc == <<mcpVars, restVars, bridgeVars, repoVars, coreVars, recordingVars, jsVars, authVars, serviceVars>>
notService == <<mcpVars, restVars, bridgeVars, repoVars, coreVars, recordingVars, jsVars, authVars, ipcVars>>

(***************************************************************************)
(* Bounds of the model.                                                    *)
(***************************************************************************)
MaxTools == 120          \* the registry lists 0..MaxTools tools in SpecList
MaxCursorIndex == 125    \* cursors base64(decimal k) are tried for k in 0..MaxCursorIndex
MaxRequests == 3         \* fresh correlation ids the correlation manager hands out
MaxBatch == 3            \* the longest batch a client sends
NumTools == 2            \* the registry's tools under Spec
MaxExecutions == 2       \* executions the repository holds under SpecRest
MaxRegistry == 2         \* task definitions the registry holds at once
MaxRepositories == 2      \* repositories the database ever holds
MaxRecorded == 2         \* HTTP requests a recording session makes
MaxClock == 2            \* the latest instant (ms) chrono::Utc::now() returns
MaxCalls == 2            \* calls the task executor issues
MaxConcurrent == 2       \* concurrent calls of the repository service
MaxStarts == 4           \* server tasks an MCP service ever spawns

(***************************************************************************)
(* Option<T>: None is the empty sequence, Some(x) the one-element one.     *)
(***************************************************************************)
None == <<>>
Some(x) == <<x>>
IsSome(o) == Len(o) = 1
Unwrap(o) == o[1]

Min(a, b) == IF a <= b THEN a ELSE b

(***************************************************************************)
(* The state outside the MCP handler before any of its operations ran.     *)
(***************************************************************************)
\* The execution repository is empty and no REST handler has answered.
RestInit ==
    /\ executions = <<>>
    /\ clock = 0
    /\ restResult = None
    /\ retried = None

\* The registry holds no task, the bridge has no store, the store is empty.
BridgeInit ==
    /\ registry = {}
    /\ repositories = FALSE
    /\ storeUp = TRUE
    /\ taskStore = <<>>
    /\ lastSync = None
    /\ changedSince = FALSE
    /\ loaded = None

\* The database holds no repository and the sync service none either;
\* active_repositories is HashMap::new(); no call is under way.
RepoCallers == 1..MaxConcurrent
RepoInit ==
    /\ repoDb = <<>>
    /\ nextRepoId = 1
    /\ registered = {}
    /\ repoSync = None
    /\ security_manager = FALSE
    /\ repoResult = None
    /\ securityEvents = <<>>
    /\ active_repositories = {}
    /\ repoCalls = [c \in RepoCallers |-> [op |-> "none", id |-> 0, at |-> "idle"]]

\* No error has been classified.
CoreInit == classified = None

\* Recording is off, no HAR file is written, no session has begun.
Sessions == 1..2
RecordingInit ==
    /\ recordingState = None
    /\ harFiles = [dir \in Sessions |-> None]
    /\ sessions = [s \in Sessions |-> [stage |-> "new", sent |-> <<>>]]
    /\ recordingCall = None
    /\ finalized = FALSE
    /\ jsonFiles = [dir \in Sessions |-> {}]

\* No input has been bound to a script.
JsInit == jsRun = None

\* No request has been authenticated and no context asked.
AuthInit == authRun = None /\ permitted = None

\* No call has been issued; the workers are idle and their pipes empty.
Workers == 1..2
IpcInit ==
    /\ ipcCalls = <<>>
    /\ ipcPending = [w \in Workers |-> {}]
    /\ ipcWorking = [w \in Workers |-> {}]
    /\ ipcWire = [w \in Workers |-> None]
    /\ ipcDelivered = {}
    /\ ipcLast = None

\* A service just built by McpService::new over the stdio transport: no
\* handle, nothing spawned.
ServerTasks == 1..MaxStarts
ServiceInit ==
    /\ transport = "stdio"
    /\ server_handle = None
    /\ serverTasks = [t \in ServerTasks |-> "unspawned"]
    /\ stopped = FALSE
    /\ serviceCall = None

OutsideInit == RestInit /\ BridgeInit /\ RepoInit /\ CoreInit /\ RecordingInit /\ JsInit /\ AuthInit /\ IpcInit /\ ServiceInit

(***************************************************************************)
(* Text.  A string is the sequence of its bytes (ASCII codes); a base64    *)
(* text is the sequence of its symbols: 0..63 is the index of a character  *)
(* in the standard alphabet A-Z a-z 0-9 + /, PadSym is '=' and BadSym a    *)
(* character outside the alphabet.                                         *)
(***************************************************************************)
PadSym == 64
BadSym == 65
Ascii0 == 48
AsciiPlus == 43

Alphabet ==
    << "A","B","C","D","E","F","G","H","I","J","K","L","M","N","O","P",
       "Q","R","S","T","U","V","W","X","Y","Z","a","b","c","d","e","f",
       "g","h","i","j","k","l","m","n","o","p","q","r","s","t","u","v",
       "w","x","y","z","0","1","2","3","4","5","6","7","8","9","+","/",
       "=", "!" >>

\* The text a symbol sequence stands for, e.g. <<13,19,0,64>> is "NTA=".
RECURSIVE B64Text(_)
B64Text(syms) ==
    IF syms = <<>> THEN "" ELSE Alphabet[Head(syms) + 1] \o B64Text(Tail(syms))

\* usize::to_string: the decimal digits of n, no sign, no leading zero.
RECURSIVE ToDecimal(_)
ToDecimal(n) ==
    IF n < 10 THEN <<Ascii0 + n>>
    ELSE Append(ToDecimal(n \div 10), Ascii0 + (n % 10))

IsDigit(b) == b >= Ascii0 /\ b <= Ascii0 + 9

RECURSIVE DigitsValue(_)
DigitsValue(ds) ==
    IF ds = <<>> THEN 0
    ELSE 10 * DigitsValue(SubSeq(ds, 1, Len(ds) - 1)) + (ds[Len(ds)] - Ascii0)

\* String::from_utf8(..).ok().and_then(|s| s.parse::<usize>().ok()):
\* an optional '+', then one or more decimal digits and nothing else.  A
\* byte that is no digit (a '-', a blank, a byte that is not UTF-8) gives
\* None.  The texts tried are short, so the value never exceeds usize.
ParseUsize(bytes) ==
    LET ds == IF bytes # <<>> /\ Head(bytes) = AsciiPlus THEN Tail(bytes) ELSE bytes
    IN  IF ds # <<>> /\ \A i \in 1..Len(ds) : IsDigit(ds[i])
        THEN Some(DigitsValue(ds))
        ELSE None

\* A base64 encoder that leaves the padding out (STANDARD_NO_PAD).
RECURSIVE B64EncodeNoPad(_)
B64EncodeNoPad(bytes) ==
    IF bytes = <<>> THEN <<>>
    ELSE IF Len(bytes) = 1 THEN
        << bytes[1] \div 4, (bytes[1] % 4) * 16 >>
    ELSE IF Len(bytes) = 2 THEN
        << bytes[1] \div 4, (bytes[1] % 4) * 16 + bytes[2] \div 16, (bytes[2] % 16) * 4 >>
    ELSE
        << bytes[1] \div 4, (bytes[1] % 4) * 16 + bytes[2] \div 16,
           (bytes[2] % 16) * 4 + bytes[3] \div 64, bytes[3] % 64 >>
        \o B64EncodeNoPad(SubSeq(bytes, 4, Len(bytes)))

\* base64 STANDARD.encode: three bytes to four symbols, '=' padded.
RECURSIVE B64Encode(_)
B64Encode(bytes) ==
    IF bytes = <<>> THEN <<>>
    ELSE IF Len(bytes) = 1 THEN
        << bytes[1] \div 4, (bytes[1] % 4) * 16, PadSym, PadSym >>
    ELSE IF Len(bytes) = 2 THEN
        << bytes[1] \div 4, (bytes[1] % 4) * 16 + bytes[2] \div 16,
           (bytes[2] % 16) * 4, PadSym >>
    ELSE
        << bytes[1] \div 4, (bytes[1] % 4) * 16 + bytes[2] \div 16,
           (bytes[2] % 16) * 4 + bytes[3] \div 64, bytes[3] % 64 >>
        \o B64Encode(SubSeq(bytes, 4, Len(bytes)))

\* The bytes of one group of four symbols; q holds 2, 3 or 4 data symbols.
QuadBytes(q) ==
    LET b1 == q[1] * 4 + q[2] \div 16
        b2 == (q[2] % 16) * 16 + (IF Len(q) >= 3 THEN q[3] \div 4 ELSE 0)
        b3 == (IF Len(q) >= 3 THEN (q[3] % 4) * 64 ELSE 0) + (IF Len(q) = 4 THEN q[4] ELSE 0)
    IN  IF Len(q) = 2 THEN <<b1>> ELSE IF Len(q) = 3 THEN <<b1, b2>> ELSE <<b1, b2, b3>>

RECURSIVE B64DecodeData(_)
B64DecodeData(syms) ==
    IF syms = <<>> THEN <<>>
    ELSE IF Len(syms) <= 4 THEN QuadBytes(syms)
    ELSE QuadBytes(SubSeq(syms, 1, 4)) \o B64DecodeData(SubSeq(syms, 5, Len(syms)))

\* base64 STANDARD.decode: Err (None) unless the length is a multiple of
\* four, every character is of the alphabet, the padding is one or two '='
\* at the very end, and the bits the padding leaves unused are zero.
B64Decode(syms) ==
    LET n    == Len(syms)
        pads == IF n >= 2 /\ syms[n] = PadSym /\ syms[n - 1] = PadSym THEN 2
                ELSE IF n >= 1 /\ syms[n] = PadSym THEN 1 ELSE 0
        data == SubSeq(syms, 1, n - pads)
    IN  IF n % 4 # 0 THEN None
        ELSE IF \E i \in 1..Len(data) : data[i] >= PadSym THEN None
        ELSE IF pads = 2 /\ data[Len(data)] % 16 # 0 THEN None
        ELSE IF pads = 1 /\ data[Len(data)] % 4 # 0 THEN None
        ELSE Some(B64DecodeData(data))

(***************************************************************************)
(* Values the handlers exchange.                                           *)
(***************************************************************************)
\* McpError: the variant, and the method or field it names.
McpErr(kind, about) == [kind |-> kind, about |-> about]
NoError == McpErr("", "")
NoValue == [kind |-> "none"]

\* McpResult<Value>
Ok(v) == [ok |-> TRUE, value |-> v, error |-> NoError]
Err(e) == [ok |-> FALSE, value |-> NoValue, error |-> e]

\* A call a handler makes on a collaborator: the correlation manager
\* (start_request, add_request_metadata, complete_request), the metrics
\* (record_request, record_tool_execution), the audit logger
\* (log_tool_execution, log_authorization) or the tool registry
\* (execute_tool).  tool is -1 where the call names no tool.
NoTool == 0 - 1
Effect(op, id, client, method, tool, success, code) ==
    [op |-> op, id |-> id, client |-> client, method |-> method, tool |-> tool,
     success |-> success, code |-> code]

\* params: Option<serde_json::Value>.  A value is a JSON object with the
\* fields the handlers read, or something that is no object.  A field is
\* None when absent; the cursor field holds [string, text]: whether the
\* JSON value is a string, and its text.
JsonObject(cursor, name, uri) ==
    [object |-> TRUE, cursor |-> cursor, name |-> name, uri |-> uri, requests |-> None]
JsonOther ==
    [object |-> FALSE, cursor |-> None, name |-> None, uri |-> None, requests |-> None]
\* { "requests": [...] }, the params of a batch
JsonBatch(requests) ==
    [object |-> TRUE, cursor |-> None, name |-> None, uri |-> None, requests |-> Some(requests)]
\* JsonRpcRequest
JsonRpcRequest(id, method, params) == [id |-> id, method |-> method, params |-> params]
CursorString(text) == [string |-> TRUE, text |-> text]
CursorNumber == [string |-> FALSE, text |-> <<>>]

\* SecurityContext: the client and the request id inherited from the caller.
InheritedId == 0
Clients == {"admin", "guest"}
SecurityContexts ==
    [client : Clients, request_id : {None, Some(InheritedId)}]

\* The correlation manager's state.
Cm(next, active) == [next |-> next, active |-> active]

\* What a handler did: its result, its calls in order, the correlation
\* manager afterwards.
Outcome(result, effects, cm) == [result |-> result, effects |-> effects, cm |-> cm]

\* CorrelationManager::start_request: a fresh id, now active.
StartRequest(cm) == Cm(cm.next + 1, cm.active \cup {cm.next})
\* CorrelationManager::complete_request
CompleteRequest(cm, id) == Cm(cm.next, cm.active \ {id})

(***************************************************************************)
(* tools/list                                                              *)
(***************************************************************************)
PAGE_SIZE == 50

\* serde_json::from_value::<ToolsListParams>: { cursor?: string }
DecodeToolsListParams(v) ==
    IF ~v.object THEN None
    ELSE IF IsSome(v.cursor) /\ ~Unwrap(v.cursor).string THEN None
    ELSE Some(IF IsSome(v.cursor) THEN Some(Unwrap(v.cursor).text) ELSE None)

\* StartIndex with the range check off by one: index <= tools.len().
StartIndexInclusive(cursor, len) ==
    IF ~IsSome(cursor) THEN 0
    ELSE LET decoded == B64Decode(Unwrap(cursor))
         IN  IF ~IsSome(decoded) THEN 0
             ELSE LET index == ParseUsize(Unwrap(decoded))
                  IN  IF IsSome(index) /\ Unwrap(index) <= len THEN Unwrap(index) ELSE 0

\* The index the page starts at, from the decoded params' cursor.
StartIndex(cursor, len) ==
    IF ~IsSome(cursor) THEN 0
    ELSE LET decoded == B64Decode(Unwrap(cursor))
         IN  IF ~IsSome(decoded) THEN 0
             ELSE LET index == ParseUsize(Unwrap(decoded))
                  IN  IF IsSome(index) /\ Unwrap(index) < len THEN Unwrap(index) ELSE 0

\* ToolsListResult with a cursor also after the last page: end_index <= tools.len().
ToolsListResultAlwaysCursor(all, start_index) ==
    LET end_index == Min(start_index + PAGE_SIZE, Len(all))
    IN  [kind |-> "tools_list",
         tools |-> SubSeq(all, start_index + 1, Min(start_index + PAGE_SIZE, Len(all))),
         next_cursor |-> IF end_index <= Len(all)
                         THEN Some(B64Encode(ToDecimal(end_index)))
                         ELSE None]

\* The page and the cursor of the next one.
ToolsListResult(all, start_index) ==
    LET end_index == Min(start_index + PAGE_SIZE, Len(all))
    IN  [kind |-> "tools_list",
         tools |-> SubSeq(all, start_index + 1, Min(start_index + PAGE_SIZE, Len(all))),
         next_cursor |-> IF end_index < Len(all)
                         THEN Some(B64Encode(ToDecimal(end_index)))
                         ELSE None]

\* McpRequestHandler::handle_tools_list.  registry_ok: whether the
\* registry's list_tools succeeds.
HandleToolsList(cm, params, ctx, registry_ok) ==
    LET started    == ~IsSome(ctx.request_id)
        request_id == IF started THEN cm.next ELSE Unwrap(ctx.request_id)
        cm1        == IF started THEN StartRequest(cm) ELSE cm
        e1         == IF started
                      THEN <<Effect("start_request", request_id, ctx.client, "tools/list", NoTool, TRUE, "")>>
                      ELSE <<>>
        decoded    == IF IsSome(params) THEN DecodeToolsListParams(Unwrap(params)) ELSE Some(None)
    IN  IF ~IsSome(decoded) THEN
            Outcome(Err(McpErr("Serialization", "tools/list")), e1, cm1)
        ELSE IF ~registry_ok THEN
            Outcome(Err(McpErr("Internal", "list_tools")), e1, cm1)
        ELSE
            Outcome(
                Ok(ToolsListResult(tools, StartIndex(Unwrap(decoded), Len(tools)))),
                e1
                \o <<Effect("record_request", request_id, ctx.client, "tools/list", NoTool, TRUE, "")>>
                \o (IF started
                    THEN <<Effect("complete_request", request_id, ctx.client, "tools/list", NoTool, TRUE, "")>>
                    ELSE <<>>)
                \o <<Effect("log_tool_execution", request_id, ctx.client, "tools/list", NoTool, TRUE, "")>>,
                IF started THEN CompleteRequest(cm1, request_id) ELSE cm1)

(***************************************************************************)
(* The tool registry and the client's permissions, as the handler sees     *)
(* them.                                                                   *)
(***************************************************************************)
\* ClientPermissions of the two clients: admin may call every tool name,
\* also one the registry does not hold, and send the longest batch; guest
\* may call the first tool only and send batches of one request.
Permissions(client) ==
    IF client = "admin"
    THEN [allowed_tools |-> 1..(Len(tools) + 1), max_batch_size |-> MaxBatch]
    ELSE [allowed_tools |-> {1}, max_batch_size |-> 1]

\* ToolRegistry::can_access_tool
CanAccessTool(name, ctx) == name \in Permissions(ctx.client).allowed_tools

\* The registry's tools with an even index fail when executed.
ToolFails(name) == name % 2 = 0

\* ToolRegistry::execute_tool
ExecuteTool(name) ==
    IF name \notin 1..Len(tools) THEN Err(McpErr("ToolNotFound", "tool"))
    ELSE IF ToolFails(name) THEN Err(McpErr("ToolExecutionFailed", "tool"))
    ELSE Ok([kind |-> "tools_call", tool |-> name])

\* PermissionChecker::validate_request_size, given the batch's size
ValidateRequestSize(permissions, size) == size <= permissions.max_batch_size

\* InputSanitizer::validate_resource_uri
SafeUri == "ratchet://config/settings"
UnsafeUri == "../../../etc/passwd"
ValidateResourceUri(uri) == uri = SafeUri

(***************************************************************************)
(* tools/call                                                              *)
(***************************************************************************)
\* serde_json::from_value::<ToolsCallParams>: { name, arguments? }
DecodeToolsCallParams(v) == IF v.object /\ IsSome(v.name) THEN v.name ELSE None

\* handle_tools_call once the tool may be accessed: the metadata, the
\* execution, the metrics, the correlation's completion, the audit record.
ExecuteToolsCall(cm1, e1, name, ctx, started, request_id) ==
    LET result     == ExecuteTool(name)
        success    == result.ok
        error_code == IF success THEN "" ELSE "tool_execution_failed"
    IN  Outcome(
            result,
            e1
            \o <<Effect("add_request_metadata", request_id, ctx.client, "tools/call", name, TRUE, "tool_name"),
                 Effect("execute_tool", request_id, ctx.client, "tools/call", name, success, ""),
                 Effect("record_request", request_id, ctx.client, "tools/call", NoTool, success, ""),
                 Effect("record_tool_execution", request_id, ctx.client, "tools/call", name, success, "")>>
            \o (IF started
                THEN <<Effect("complete_request", request_id, ctx.client, "tools/call", NoTool, success, error_code)>>
                ELSE <<>>)
            \o <<Effect("log_tool_execution", request_id, ctx.client, "tools/call", name, success, "")>>,
            IF started THEN CompleteRequest(cm1, request_id) ELSE cm1)

\* The denial branch without its return: the call goes on to execute.
DenyToolsCallFallsThrough(cm1, e1, name, ctx, started, request_id) ==
    ExecuteToolsCall(cm1, e1, name, ctx, started, request_id)

\* The denial branch completing the correlation whoever started it.
DenyToolsCallCompletes(cm1, e1, name, ctx, started, request_id) ==
    Outcome(
        Err(McpErr("AuthorizationDenied", "tool")),
        e1
        \o <<Effect("record_request", request_id, ctx.client, "tools/call", NoTool, FALSE, ""),
             Effect("complete_request", request_id, ctx.client, "tools/call", NoTool, FALSE, "authorization_denied")>>,
        CompleteRequest(cm1, request_id))

\* handle_tools_call when can_access_tool says no.
DenyToolsCall(cm1, e1, name, ctx, started, request_id) ==
    Outcome(
        Err(McpErr("AuthorizationDenied", "tool")),
        e1
        \o <<Effect("record_request", request_id, ctx.client, "tools/call", NoTool, FALSE, "")>>
        \o (IF started
            THEN <<Effect("complete_request", request_id, ctx.client, "tools/call", NoTool, FALSE, "authorization_denied")>>
            ELSE <<>>),
        IF started THEN CompleteRequest(cm1, request_id) ELSE cm1)

\* McpRequestHandler::handle_tools_call
HandleToolsCall(cm, params, ctx) ==
    LET started    == ~IsSome(ctx.request_id)
        request_id == IF started THEN cm.next ELSE Unwrap(ctx.request_id)
        cm1        == IF started THEN StartRequest(cm) ELSE cm
        e1         == IF started
                      THEN <<Effect("start_request", request_id, ctx.client, "tools/call", NoTool, TRUE, "")>>
                      ELSE <<>>
        decoded    == IF IsSome(params) THEN DecodeToolsCallParams(Unwrap(params)) ELSE None
    IN  IF ~IsSome(decoded) THEN
            Outcome(Err(McpErr("InvalidParams", "tools/call")), e1, cm1)
        ELSE IF ~CanAccessTool(Unwrap(decoded), ctx) THEN
            DenyToolsCall(cm1, e1, Unwrap(decoded), ctx, started, request_id)
        ELSE
            ExecuteToolsCall(cm1, e1, Unwrap(decoded), ctx, started, request_id)

(***************************************************************************)
(* resources/list and resources/read                                       *)
(***************************************************************************)
\* McpRequestHandler::handle_resources_list
HandleResourcesList(cm, params, ctx) ==
    IF IsSome(params) /\ ~IsSome(DecodeToolsListParams(Unwrap(params))) THEN
        Outcome(Err(McpErr("Serialization", "resources/list")), <<>>, cm)
    ELSE
        Outcome(Ok([kind |-> "resources_list"]),
                <<Effect("log_authorization", NoTool, ctx.client, "resources/list", NoTool, TRUE, "")>>,
                cm)

\* McpRequestHandler::handle_resources_read
HandleResourcesRead(cm, params, ctx) ==
    IF ~IsSome(params) \/ ~Unwrap(params).object \/ ~IsSome(Unwrap(params).uri) THEN
        Outcome(Err(McpErr("InvalidParams", "resources/read")), <<>>, cm)
    ELSE IF ~ValidateResourceUri(Unwrap(Unwrap(params).uri)) THEN
        Outcome(Err(McpErr("Validation", "uri")), <<>>, cm)
    ELSE
        Outcome(Ok([kind |-> "resources_read"]),
                <<Effect("log_authorization", NoTool, ctx.client, "resources/read", NoTool, TRUE, "")>>,
                cm)

(***************************************************************************)
(* McpError -> JsonRpcError                                                *)
(***************************************************************************)
McpErrorKinds ==
    { "Transport", "ConnectionFailed", "ConnectionTimeout", "Protocol", "InvalidJsonRpc",
      "MethodNotFound", "InvalidParams", "ToolNotFound", "ToolExecutionFailed",
      "AuthenticationFailed", "AuthorizationDenied", "RateLimitExceeded", "RateLimited",
      "QuotaExceeded", "ServerTimeout", "ServerUnavailable", "ServerError", "Configuration",
      "Serialization", "Internal", "Network", "Security", "Validation", "ResourceNotFound",
      "Cancelled", "Generic" }

\* JsonRpcError's constructors
JsonRpcMethodNotFound(method) == [code |-> -32601, message |-> "Method not found"]
JsonRpcInvalidParams(details) == [code |-> -32602, message |-> "Invalid params"]
JsonRpcInternalError(message) == [code |-> -32603, message |-> "Internal error"]
JsonRpcServerError(code, message) == [code |-> code, message |-> message]

\* The conversion without its Validation arm: Validation falls to the last arm.
JsonRpcErrorFromNoValidation(err) ==
    CASE err.kind = "MethodNotFound" -> JsonRpcMethodNotFound(err.about)
      [] err.kind = "InvalidParams"  -> JsonRpcInvalidParams(err.about)
      [] err.kind = "ServerTimeout"  -> JsonRpcServerError(-32001, "Request timeout")
      [] err.kind = "Internal"       -> JsonRpcInternalError(err.about)
      [] OTHER                       -> JsonRpcInternalError(err.kind)

\* impl From<McpError> for JsonRpcError
JsonRpcErrorFrom(err) ==
    CASE err.kind = "MethodNotFound" -> JsonRpcMethodNotFound(err.about)
      [] err.kind = "InvalidParams"  -> JsonRpcInvalidParams(err.about)
      [] err.kind = "Validation"     -> JsonRpcInvalidParams(err.about)
      [] err.kind = "ServerTimeout"  -> JsonRpcServerError(-32001, "Request timeout")
      [] err.kind = "Internal"       -> JsonRpcInternalError(err.about)
      [] OTHER                       -> JsonRpcInternalError(err.kind)

(***************************************************************************)
(* batch                                                                   *)
(***************************************************************************)
\* The dispatcher serving a method it does not know as tools/list.
HandleSingleRequestDefaultsToList(cm, request, ctx) ==
    CASE request.method = "tools/call"     -> HandleToolsCall(cm, request.params, ctx)
      [] request.method = "resources/list" -> HandleResourcesList(cm, request.params, ctx)
      [] request.method = "resources/read" -> HandleResourcesRead(cm, request.params, ctx)
      [] OTHER -> HandleToolsList(cm, None, ctx, TRUE)

\* McpRequestHandler::handle_single_request
HandleSingleRequest(cm, request, ctx) ==
    CASE request.method = "tools/list"     -> HandleToolsList(cm, request.params, ctx, TRUE)
      [] request.method = "tools/call"     -> HandleToolsCall(cm, request.params, ctx)
      [] request.method = "resources/list" -> HandleResourcesList(cm, request.params, ctx)
      [] request.method = "resources/read" -> HandleResourcesRead(cm, request.params, ctx)
      [] OTHER -> Outcome(Err(McpErr("MethodNotFound", request.method)), <<>>, cm)

\* JsonRpcResponse
JsonRpcResponse(result, error, id) ==
    [jsonrpc |-> "2.0", result |-> result, error |-> error, id |-> id]

\* handler_fn with a failed request answered by a result and an error.
BatchItemResponseBoth(request, result) ==
    IF result.ok
    THEN JsonRpcResponse(Some(result.value), None, request.id)
    ELSE JsonRpcResponse(Some(NoValue), Some(JsonRpcErrorFrom(result.error)), request.id)

\* handler_fn, the closure handle_batch gives the batch processor: the
\* response to one inner request, from its handler's result.
BatchItemResponse(request, result) ==
    IF result.ok
    THEN JsonRpcResponse(Some(result.value), None, request.id)
    ELSE JsonRpcResponse(None, Some(JsonRpcErrorFrom(result.error)), request.id)

\* BatchProcessor::process_batch_with_handler when it processes the batch:
\* each inner request goes to the handler, in order; an item is the
\* request, its handler's result and calls, and its response.  (When the
\* processor refuses the batch it returns Err and dispatches nothing.)
RECURSIVE ProcessBatchWithHandler(_, _, _)
ProcessBatchWithHandler(cm, requests, ctx) ==
    IF requests = <<>> THEN [cm |-> cm, items |-> <<>>]
    ELSE LET out  == HandleSingleRequest(cm, Head(requests), ctx)
             rest == ProcessBatchWithHandler(out.cm, Tail(requests), ctx)
         IN  [cm |-> rest.cm,
              items |-> <<[request |-> Head(requests), result |-> out.result,
                           effects |-> out.effects,
                           response |-> BatchItemResponse(Head(requests), out.result)]>>
                        \o rest.items]

\* BatchResult.stats
BatchStats(items) ==
    [total |-> Len(items),
     successful |-> Cardinality({ i \in 1..Len(items) : ~IsSome(items[i].response.error) }),
     failed |-> Cardinality({ i \in 1..Len(items) : IsSome(items[i].response.error) }),
     skipped |-> 0]

RECURSIVE ItemEffects(_)
ItemEffects(items) ==
    IF items = <<>> THEN <<>> ELSE Head(items).effects \o ItemEffects(Tail(items))

\* serde_json::from_value::<BatchParams>: { requests, options? }
DecodeBatchParams(v) == IF v.object THEN v.requests ELSE None

\* The size check that lets every batch through.
BatchSizeUnchecked(ctx, requests) == TRUE

\* handle_batch's check of the batch size against the client's permissions
BatchSizeAllowed(ctx, requests) ==
    ValidateRequestSize(Permissions(ctx.client), Len(requests))

\* A batch's outcome also holds its items.
BatchOutcome(result, effects, cm, items) ==
    [result |-> result, effects |-> effects, cm |-> cm, items |-> items]

\* McpRequestHandler::handle_batch.  processor_ok: whether
\* process_batch_with_handler returns Ok.
HandleBatch(cm, params, ctx, batch_processor, processor_ok) ==
    LET decoded == IF IsSome(params) THEN DecodeBatchParams(Unwrap(params)) ELSE None
    IN  IF ~batch_processor THEN
            BatchOutcome(Err(McpErr("MethodNotFound", "batch")), <<>>, cm, <<>>)
        ELSE IF ~IsSome(decoded) THEN
            BatchOutcome(Err(McpErr("InvalidParams", "batch")), <<>>, cm, <<>>)
        ELSE IF ~BatchSizeAllowed(ctx, Unwrap(decoded)) THEN
            BatchOutcome(Err(McpErr("Validation", "batch_size")), <<>>, cm, <<>>)
        ELSE IF ~processor_ok THEN
            BatchOutcome(Err(McpErr("Internal", "batch")), <<>>, cm, <<>>)
        ELSE
            LET run   == ProcessBatchWithHandler(cm, Unwrap(decoded), ctx)
                stats == BatchStats(run.items)
            IN  BatchOutcome(
                    Ok([kind |-> "batch",
                        responses |-> [i \in 1..Len(run.items) |-> run.items[i].response],
                        stats |-> stats]),
                    ItemEffects(run.items)
                    \o <<Effect("log_authorization", NoTool, ctx.client, "batch", NoTool,
                                stats.failed = 0, "batch_execute")>>,
                    run.cm, run.items)

(***************************************************************************)
(* The state machine.  A client sends one request at a time: a handler     *)
(* runs when no response is pending, and Deliver hands the pending         *)
(* response over.                                                          *)
(***************************************************************************)
\* The registry's list of n tools: tool i is the i-th in its order.
ToolList(n) == [i \in 1..n |-> i]

\* What the handler's collaborators do during a call: whether the
\* registry's list_tools succeeds, and whether the batch processor
\* processes the batch.
Env(registry_ok, processor_ok) == [registry_ok |-> registry_ok, processor_ok |-> processor_ok]
Fine == Env(TRUE, TRUE)

\* The pending call: the request, what its collaborators did, and what the
\* handler did.  items are a batch's inner calls, in order.
CallRecord(method, params, ctx, env, out, items) ==
    [method |-> method, params |-> params, ctx |-> ctx, env |-> env, result |-> out.result,
     effects |-> out.effects, items |-> items]

NoWalk == [state |-> "none", got |-> <<>>, next |-> None]

Idle == call = None

\* The handler ran: its response is pending and the correlation manager
\* is as it left it.
Respond(method, params, ctx, env, out, items) ==
    /\ call' = Some(CallRecord(method, params, ctx, env, out, items))
    /\ nextRequestId' = out.cm.next
    /\ activeRequests' = out.cm.active

\* Cursors a client may send that are no base64 of a decimal index:
\* "!!!!", "NTA" (no padding), "NTB=" (stray bits), "YWJj" (abc),
\* "LTE=" (-1), "" , "////" (not UTF-8), "====" and "NQ" .
BadCursors ==
    { <<BadSym, BadSym, BadSym, BadSym>>, <<13, 19, 0>>, <<13, 19, 1, PadSym>>,
      <<24, 22, 9, 35>>, <<11, 19, 4, PadSym>>, <<>>, <<63, 63, 63, 63>>,
      <<PadSym, PadSym, PadSym, PadSym>>, <<13, 16>> }

\* Cursors that parse although no tools/list produced them: "KzU=" (+5)
\* and "MDA3" (007).
OddCursors == { <<10, 51, 20, PadSym>>, <<12, 3, 0, 55>> }

\* The cursor of index k: the base64 of its decimal digits.
CursorOfIndex == [k \in 0..MaxCursorIndex |-> B64Encode(ToDecimal(k))]

IndexCursors == { CursorOfIndex[k] : k \in 0..MaxCursorIndex }

CursorInputs == IndexCursors \cup BadCursors \cup OddCursors

\* The contexts of the client that pages through the list.
ListContexts == { ctx \in SecurityContexts : ctx.client = "admin" }

\* tools/list with no cursor: the first page of a walk.
ListFirst ==
    /\ Idle
    /\ nextRequestId <= MaxRequests
    /\ \E ctx \in ListContexts, params \in {None, Some(JsonObject(None, None, None))} :
         LET out == HandleToolsList(Cm(nextRequestId, activeRequests), params, ctx, TRUE)
             res == out.result.value
         IN  /\ Respond("tools/list", params, ctx, Fine, out, <<>>)
             /\ walk' = [state |-> IF IsSome(res.next_cursor) THEN "paging" ELSE "done",
                         got |-> res.tools, next |-> res.next_cursor]
    /\ UNCHANGED config

\* tools/list with the cursor the last page gave: the walk's next page.
ListNext ==
    /\ Idle
    /\ nextRequestId <= MaxRequests
    /\ walk.state = "paging"
    /\ \E ctx \in ListContexts :
         LET params == Some(JsonObject(Some(CursorString(Unwrap(walk.next))), None, None))
             out == HandleToolsList(Cm(nextRequestId, activeRequests), params, ctx, TRUE)
             res == out.result.value
         IN  /\ Respond("tools/list", params, ctx, Fine, out, <<>>)
             /\ walk' = [state |-> IF IsSome(res.next_cursor) THEN "paging" ELSE "done",
                         got |-> walk.got \o res.tools, next |-> res.next_cursor]
    /\ UNCHANGED config

\* tools/list with any cursor text; it is no part of a walk.
ListCursor ==
    /\ Idle
    /\ nextRequestId <= MaxRequests
    /\ \E ctx \in ListContexts, c \in CursorInputs :
         LET params == Some(JsonObject(Some(CursorString(c)), None, None))
         IN  Respond("tools/list", params, ctx, Fine,
                     HandleToolsList(Cm(nextRequestId, activeRequests), params, ctx, TRUE), <<>>)
    /\ walk' = NoWalk
    /\ UNCHANGED config

\* The pending response is handed to the client.
Deliver ==
    /\ ~Idle
    /\ call' = None
    /\ UNCHANGED <<config, nextRequestId, activeRequests, walk>>

InitList ==
    /\ tools \in { ToolList(n) : n \in 0..MaxTools }
    /\ batchProcessor = FALSE
    /\ conversion = None
    /\ nextRequestId = 1
    /\ activeRequests = {}
    /\ call = None
    /\ walk = NoWalk
    /\ OutsideInit

NextList == ListFirst \/ ListNext \/ ListCursor \/ Deliver

SpecList == InitList /\ [][NextList]_vars

(***************************************************************************)
(* The handler's methods over a registry of NumTools tools (Spec).         *)
(***************************************************************************)
\* The names a client asks for: the registry's tools and one it lacks.
ToolNames == 1..(NumTools + 1)

\* The params a client sends with tools/list.
ListParamInputs ==
    { None, Some(JsonOther), Some(JsonObject(None, None, None)),
      Some(JsonObject(Some(CursorNumber), None, None)),
      Some(JsonObject(Some(CursorString(CursorOfIndex[1])), None, None)),
      Some(JsonObject(Some(CursorString(<<BadSym, BadSym, BadSym, BadSym>>)), None, None)) }

\* The params a client sends with tools/call.
CallParamInputs ==
    { None, Some(JsonOther), Some(JsonObject(None, None, None)) }
    \cup { Some(JsonObject(None, Some(t), None)) : t \in ToolNames }

\* The params a client sends with resources/read.
ReadParamInputs ==
    { None, Some(JsonObject(None, None, None)),
      Some(JsonObject(None, None, Some(SafeUri))), Some(JsonObject(None, None, Some(UnsafeUri))) }

\* The inner requests of a batch, without their ids: tools/call of every
\* name, tools/call without params, tools/list, resources/read of an
\* unsafe uri, and a nested batch.
ItemInputs ==
    { [method |-> "tools/call", params |-> Some(JsonObject(None, Some(t), None))] : t \in ToolNames }
    \cup { [method |-> "tools/call", params |-> None],
           [method |-> "tools/list", params |-> None],
           [method |-> "resources/list", params |-> None],
           [method |-> "resources/read", params |-> Some(JsonObject(None, None, Some(UnsafeUri)))],
           [method |-> "ping", params |-> None],
           [method |-> "batch",
            params |-> Some(JsonBatch(<<JsonRpcRequest(1, "tools/list", None)>>))] }

\* The batches a client sends: up to MaxBatch inner requests, the i-th
\* with id i.
BatchInputs ==
    UNION { { [i \in 1..k |-> JsonRpcRequest(i, f[i].method, f[i].params)] :
              f \in [1..k -> ItemInputs] } : k \in 0..MaxBatch }

ToolsList ==
    /\ Idle
    /\ nextRequestId <= MaxRequests
    /\ \E ctx \in SecurityContexts, registry_ok \in BOOLEAN, params \in ListParamInputs :
         Respond("tools/list", params, ctx, Env(registry_ok, TRUE),
                 HandleToolsList(Cm(nextRequestId, activeRequests), params, ctx, registry_ok), <<>>)
    /\ UNCHANGED <<config, walk>>

ToolsCall ==
    /\ Idle
    /\ nextRequestId <= MaxRequests
    /\ \E ctx \in SecurityContexts, params \in CallParamInputs :
         Respond("tools/call", params, ctx, Fine,
                 HandleToolsCall(Cm(nextRequestId, activeRequests), params, ctx), <<>>)
    /\ UNCHANGED <<config, walk>>

ResourcesList ==
    /\ Idle
    /\ \E ctx \in SecurityContexts, params \in { None, Some(JsonOther), Some(JsonObject(None, None, None)) } :
         Respond("resources/list", params, ctx, Fine,
                 HandleResourcesList(Cm(nextRequestId, activeRequests), params, ctx), <<>>)
    /\ UNCHANGED <<config, walk>>

ResourcesRead ==
    /\ Idle
    /\ \E ctx \in SecurityContexts, params \in ReadParamInputs :
         Respond("resources/read", params, ctx, Fine,
                 HandleResourcesRead(Cm(nextRequestId, activeRequests), params, ctx), <<>>)
    /\ UNCHANGED <<config, walk>>

Batch ==
    /\ Idle
    /\ \E ctx \in SecurityContexts, processor_ok \in BOOLEAN,
          params \in { None, Some(JsonOther) } \cup { Some(JsonBatch(b)) : b \in BatchInputs } :
         /\ IsSome(params) /\ IsSome(Unwrap(params).requests) =>
                nextRequestId + Len(Unwrap(Unwrap(params).requests)) <= MaxRequests + 1
         /\ LET out == HandleBatch(Cm(nextRequestId, activeRequests), params, ctx,
                                   batchProcessor, processor_ok)
            IN  Respond("batch", params, ctx, Env(TRUE, processor_ok), out, out.items)
    /\ UNCHANGED <<config, walk>>

Init ==
    /\ tools = ToolList(NumTools)
    /\ batchProcessor \in BOOLEAN
    /\ nextRequestId = 1
    /\ activeRequests = {}
    /\ call = None
    /\ walk = NoWalk
    /\ conversion = None
    /\ OutsideInit

Next == ToolsList \/ ToolsCall \/ ResourcesList \/ ResourcesRead \/ Batch \/ Deliver

Spec == Init /\ [][Next]_vars

(***************************************************************************)
(* The conversion of errors on its own (SpecErr): every McpError variant,  *)
(* naming a method or a field, is converted.                               *)
(***************************************************************************)
ErrorInputs ==
    { McpErr(kind, about) : kind \in McpErrorKinds,
                            about \in { "tools/list", "tools/call", "resources/read", "batch", "uri" } }

Convert ==
    /\ \E err \in ErrorInputs :
         conversion' = Some([error |-> err, rpc |-> JsonRpcErrorFrom(err)])
    /\ UNCHANGED handlerState

SpecErr == Init /\ [][Convert]_vars

(***************************************************************************)
(* Pagination of tools/list (under SpecList).                              *)
(***************************************************************************)
\* The pending call is a tools/list that returned Ok.
ListedOk == ~Idle /\ Unwrap(call).method = "tools/list" /\ Unwrap(call).result.ok

\* The pending tools/list asks for the page at index s: it has no cursor
\* and s is 0, or its cursor is the base64 of the decimal s, an index of
\* the list.
AsksForIndex(s) ==
    LET params == Unwrap(call).params
    IN  IF IsSome(params) /\ IsSome(Unwrap(params).cursor)
        THEN /\ s < Len(tools)
             /\ Unwrap(Unwrap(params).cursor) = CursorString(CursorOfIndex[s])
        ELSE s = 0

\* C1: with an unchanged tool list of any size, a walk that starts with no
\* cursor and follows next_cursor until a page has none collects every
\* tool exactly once, in the registry's order: while it pages it holds a
\* proper prefix of the list, and when it ends it holds the whole list.
C1_WalkYieldsEachToolOnce ==
    /\ walk.state = "paging" =>
          /\ Len(walk.got) < Len(tools)
          /\ walk.got = SubSeq(tools, 1, Len(walk.got))
    /\ walk.state = "done" => walk.got = tools

\* A walk of three pages has ended.
C1_Witness == walk.state = "done" /\ Len(walk.got) > 2 * PAGE_SIZE

\* C2: a tools/list that starts at index s over n tools returns the
\* min(50, n - s) tools from s on, and a next_cursor iff s + 50 < n, which
\* is then the base64 of the decimal s + 50; over 120 tools the cursors
\* are "NTA=" (50) and "MTAw" (100).
C2_PageSizeAndCursor ==
    ListedOk => \A s \in 0..Len(tools) :
        AsksForIndex(s) =>
            LET n == Len(tools)
                page == Unwrap(call).result.value
            IN  /\ Len(page.tools) = Min(50, n - s)
                /\ page.tools = SubSeq(tools, s + 1, s + Min(50, n - s))
                /\ IsSome(page.next_cursor) <=> s + 50 < n
                /\ s + 50 < n => Unwrap(page.next_cursor) = CursorOfIndex[s + 50]
                /\ (n = 120 /\ s = 0) => B64Text(Unwrap(page.next_cursor)) = "NTA="
                /\ (n = 120 /\ s = 50) => B64Text(Unwrap(page.next_cursor)) = "MTAw"
                /\ (n = 120 /\ s = 100) => Len(page.tools) = 20

\* Over 120 tools, the call with the cursor "NTA=" returned 50 tools and
\* the cursor "MTAw".
C2_Witness ==
    /\ ListedOk
    /\ Len(tools) = 120
    /\ Unwrap(call).params = Some(JsonObject(Some(CursorString(<<13, 19, 0, PadSym>>)), None, None))
    /\ Len(Unwrap(call).result.value.tools) = 50
    /\ B64Text(Unwrap(Unwrap(call).result.value.next_cursor)) = "MTAw"

\* The pending tools/list carries a cursor text that is no valid cursor
\* for this list: no base64 of a decimal index, or of an index >= n.
HasInvalidCursor ==
    /\ ~Idle
    /\ Unwrap(call).method = "tools/list"
    /\ IsSome(Unwrap(call).params)
    /\ \/ \E c \in BadCursors : Unwrap(Unwrap(call).params).cursor = Some(CursorString(c))
       \/ \E k \in Len(tools)..MaxCursorIndex :
            Unwrap(Unwrap(call).params).cursor = Some(CursorString(CursorOfIndex[k]))

\* C3: tools/list does not fail on its cursor: with a cursor text that is
\* no valid base64, no decimal index, or an index >= the number of tools,
\* it returns the first page, as with no cursor.
C3_InvalidCursorRestarts ==
    HasInvalidCursor =>
        /\ Unwrap(call).result.ok
        /\ Unwrap(call).result.value.tools = SubSeq(tools, 1, Min(50, Len(tools)))
        /\ Unwrap(call).result.value.next_cursor =
              (IF Len(tools) > 50 THEN Some(<<13, 19, 0, PadSym>>) ELSE None)

\* A cursor that names the index n, one past the last tool of a list of
\* more than a page, got the first page.
C3_Witness ==
    /\ HasInvalidCursor
    /\ Len(tools) > PAGE_SIZE
    /\ Unwrap(Unwrap(call).params).cursor = Some(CursorString(CursorOfIndex[Len(tools)]))
    /\ Unwrap(call).result.ok
    /\ Len(Unwrap(call).result.value.tools) = PAGE_SIZE

(***************************************************************************)
(* Authorization, correlation and batches (under Spec).                    *)
(***************************************************************************)
\* The runs of the handler of `method` that the pending response holds:
\* the call itself, or the inner requests of a batch.
HandledCalls(method) ==
    IF Idle THEN {}
    ELSE (IF Unwrap(call).method = method
          THEN { [params |-> Unwrap(call).params, result |-> Unwrap(call).result,
                  effects |-> Unwrap(call).effects] }
          ELSE {})
         \cup { [params |-> Unwrap(call).items[i].request.params,
                 result |-> Unwrap(call).items[i].result,
                 effects |-> Unwrap(call).items[i].effects] :
                i \in { j \in 1..Len(Unwrap(call).items) :
                        Unwrap(call).items[j].request.method = method } }

\* The tool a tools/call names, when its params name one.
NamedTool(c) ==
    IF IsSome(c.params) /\ Unwrap(c.params).object THEN Unwrap(c.params).name ELSE None

\* The tools/call names a tool its caller may not access.
IsDenied(c) ==
    /\ IsSome(NamedTool(c))
    /\ Unwrap(NamedTool(c)) \notin Permissions(Unwrap(call).ctx.client).allowed_tools

Did(c, op) == \E i \in 1..Len(c.effects) : c.effects[i].op = op

\* C4: a tools/call whose tool fails can_access_tool for the caller never
\* executes the tool: execute_tool is not called, no tool-execution metric
\* is recorded, and the handler returns AuthorizationDenied.
C4_DeniedToolNeverExecuted ==
    \A c \in HandledCalls("tools/call") :
        IsDenied(c) =>
            /\ ~c.result.ok
            /\ c.result.error.kind = "AuthorizationDenied"
            /\ ~Did(c, "execute_tool")
            /\ ~Did(c, "record_tool_execution")

\* guest called the registry's second tool, which it may not access.
C4_Witness ==
    /\ ~Idle
    /\ Unwrap(call).method = "tools/call"
    /\ Unwrap(call).ctx.client = "guest"
    /\ Unwrap(call).params = Some(JsonObject(None, Some(2), None))
    /\ Unwrap(call).result.error.kind = "AuthorizationDenied"

\* C5: every tools/call that returns AuthorizationDenied has written an
\* audit record for its client before it returns.
C5_DenialIsAuditLogged ==
    \A c \in HandledCalls("tools/call") :
        (~c.result.ok /\ c.result.error.kind = "AuthorizationDenied") =>
            \E i \in 1..Len(c.effects) :
                /\ c.effects[i].op \in { "log_tool_execution", "log_authorization" }
                /\ c.effects[i].client = Unwrap(call).ctx.client

\* The pending call is a batch whose params hold more requests than the
\* client's permissions allow.
OversizedBatch ==
    /\ ~Idle
    /\ Unwrap(call).method = "batch"
    /\ IsSome(Unwrap(call).params)
    /\ IsSome(Unwrap(Unwrap(call).params).requests)
    /\ Len(Unwrap(Unwrap(Unwrap(call).params).requests))
         > Permissions(Unwrap(call).ctx.client).max_batch_size

AdmittedBatch ==
    /\ ~Idle
    /\ Unwrap(call).method = "batch"
    /\ batchProcessor
    /\ Unwrap(call).env.processor_ok
    /\ IsSome(Unwrap(call).params)
    /\ IsSome(Unwrap(Unwrap(call).params).requests)
    /\ Len(Unwrap(Unwrap(Unwrap(call).params).requests))
         <= Permissions(Unwrap(call).ctx.client).max_batch_size

BatchRequests == Unwrap(Unwrap(Unwrap(call).params).requests)

\* The response the request gets when it is handled on its own.
ResponseAlone(request) ==
    LET result == HandleSingleRequest(Cm(1, {}), request, Unwrap(call).ctx).result
    IN  JsonRpcResponse(IF result.ok THEN Some(result.value) ELSE None,
                        IF result.ok THEN None ELSE Some(JsonRpcErrorFrom(result.error)),
                        request.id)

\* C7: in an accepted batch the call returns Ok whatever its inner requests
\* do, and every inner request has exactly one response, at its position,
\* with its id, with exactly one of result and error, and equal to the
\* response the request gets on its own, whatever its siblings are.
C7_BatchItemsIsolated ==
    AdmittedBatch =>
        /\ Unwrap(call).result.ok
        /\ LET responses == Unwrap(call).result.value.responses
           IN  /\ Len(responses) = Len(BatchRequests)
               /\ \A i \in 1..Len(BatchRequests) :
                    /\ responses[i].id = BatchRequests[i].id
                    /\ IsSome(responses[i].result) # IsSome(responses[i].error)
                    /\ responses[i] = ResponseAlone(BatchRequests[i])

\* An accepted batch holds a request that failed and one that succeeded.
C7_Witness ==
    /\ AdmittedBatch
    /\ Unwrap(call).result.ok
    /\ Unwrap(call).result.value.stats.failed >= 1
    /\ Unwrap(call).result.value.stats.successful >= 1

\* The batch of the specification's scenario: three tools/call, the middle
\* one of a tool the registry does not hold, the others of its first tool.
UnknownToolScenario ==
    /\ AdmittedBatch
    /\ Unwrap(call).ctx.client = "admin"
    /\ Len(BatchRequests) = 3
    /\ \A i \in 1..3 : BatchRequests[i].method = "tools/call"
    /\ BatchRequests[1].params = Some(JsonObject(None, Some(1), None))
    /\ BatchRequests[2].params = Some(JsonObject(None, Some(Len(tools) + 1), None))
    /\ BatchRequests[3].params = Some(JsonObject(None, Some(1), None))

\* C8: in that batch the middle request alone gets an error, of kind
\* MethodNotFound (code -32601), its siblings succeed, and the stats are
\* total 3, successful 2, failed 1, skipped 0.
C8_UnknownToolIsMethodNotFound ==
    UnknownToolScenario =>
        LET responses == Unwrap(call).result.value.responses
        IN  /\ ~IsSome(responses[1].error)
            /\ ~IsSome(responses[3].error)
            /\ IsSome(responses[2].error)
            /\ Unwrap(responses[2].error).code = -32601
            /\ Unwrap(call).result.value.stats =
                 [total |-> 3, successful |-> 2, failed |-> 1, skipped |-> 0]

\* C9: a tools/list or tools/call that starts a correlation completes it
\* and records a request metric before it returns, on every path; no
\* started correlation stays open.
C9_StartedCorrelationCompleted ==
    /\ \A c \in HandledCalls("tools/list") \cup HandledCalls("tools/call") :
         \A i \in 1..Len(c.effects) :
             c.effects[i].op = "start_request" =>
                 /\ \E j \in (i + 1)..Len(c.effects) :
                      /\ c.effects[j].op = "complete_request"
                      /\ c.effects[j].id = c.effects[i].id
                 /\ Did(c, "record_request")
    /\ activeRequests = {}

(***************************************************************************)
(* The conversion's table (under SpecErr).                                 *)
(***************************************************************************)
\* C10: the conversion maps MethodNotFound to -32601, InvalidParams and
\* Validation to -32602, ServerTimeout to -32001, Internal to -32603, and
\* every other variant to -32603.
C10_ErrorCodeTable ==
    IsSome(conversion) =>
        LET kind == Unwrap(conversion).error.kind
            code == Unwrap(conversion).rpc.code
        IN  /\ kind = "MethodNotFound" => code = -32601
            /\ kind \in { "InvalidParams", "Validation" } => code = -32602
            /\ kind = "ServerTimeout" => code = -32001
            /\ kind = "Internal" => code = -32603
            /\ kind \notin { "MethodNotFound", "InvalidParams", "Validation", "ServerTimeout" } =>
                 code = -32603

\* Every variant has been converted at some point; here AuthorizationDenied.
C10_Witness ==
    /\ IsSome(conversion)
    /\ Unwrap(conversion).error.kind = "AuthorizationDenied"
    /\ Unwrap(conversion).rpc.code = -32603


(***************************************************************************)
(* The REST execution handlers                                             *)
(* (ratchet-rest-api/src/handlers/executions.rs): create_execution,        *)
(* update_execution, cancel_execution and retry_execution over the         *)
(* execution repository.  An execution's id is its index in executions.    *)
(* chrono::Utc::now() returns an instant no earlier than the last one it   *)
(* returned; a handler's successive reads are the instants t1 <= t2.       *)
(***************************************************************************)
ExecutionStatus == { "Pending", "Running", "Completed", "Failed", "Cancelled" }
TerminalStatus == { "Completed", "Failed", "Cancelled" }

\* duration.num_milliseconds() as i32: the number itself for the durations
\* of the model, which are far below 2^31 ms.
DurationMs(from, to) == to - from

\* The instants now() may return after it returned `last`.
Now(last) == last..MaxClock

\* The tasks the task repository holds, and an id it does not hold.
\* The input JSON of an execution: the one create requests carry, and the
\* one a retry request may carry instead.
CreateInput == "in1"
ExecutionInputs == { CreateInput, "in2" }

TaskIds == { 1 }
UnknownTaskId == 2

\* The UnifiedExecution built by create_execution and retry_execution.
NewExecution(task_id, input, now) ==
    [task_id |-> task_id, input |-> input, status |-> "Pending", queued_at |-> now,
     started_at |-> None, completed_at |-> None, duration_ms |-> None]

\* update_execution, "Apply updates" for request.status = Some(status):
\* t1 is the instant read for started_at / completed_at, t2 the one read
\* for the duration.
ApplyStatus(e, status, t1, t2) ==
    LET e1 == [e EXCEPT !.status = status]
    IN  IF status = "Running"
        THEN IF IsSome(e1.started_at) THEN e1 ELSE [e1 EXCEPT !.started_at = Some(t1)]
        ELSE IF status \in TerminalStatus
        THEN LET e2 == IF IsSome(e1.completed_at) THEN e1
                       ELSE [e1 EXCEPT !.completed_at = Some(t1)]
             IN  IF IsSome(e2.started_at)
                 THEN [e2 EXCEPT !.duration_ms = Some(DurationMs(Unwrap(e2.started_at), t2))]
                 ELSE e2
        ELSE e1

\* ExecutionRepository::mark_failed(id, message, details): the execution
\* becomes Failed and is completed at `now`.
MarkFailed(e, now) ==
    LET e1 == [e EXCEPT !.status = "Failed", !.completed_at = Some(now)]
    IN  IF IsSome(e1.started_at)
        THEN [e1 EXCEPT !.duration_ms = Some(DurationMs(Unwrap(e1.started_at), now))]
        ELSE e1

\* The ids a request may name: the repository's, and one it does not hold.
ExecutionIds == 1..(Len(executions) + 1)

RestRespond(status) == restResult' = Some(status) /\ retried' = None

\* POST /executions
CreateExecution ==
    /\ \E valid \in BOOLEAN, task_id \in TaskIds \cup { UnknownTaskId },
          input \in { CreateInput }, now \in Now(clock) :
         IF ~valid
         THEN RestRespond("BadRequest") /\ UNCHANGED <<executions, clock>>
         ELSE IF task_id \notin TaskIds
         THEN RestRespond("NotFound") /\ UNCHANGED <<executions, clock>>
         ELSE /\ Len(executions) < MaxExecutions
              /\ executions' = Append(executions, NewExecution(task_id, input, now))
              /\ clock' = now
              /\ RestRespond("Created")
    /\ UNCHANGED notRest

\* PATCH /executions/{id}
UpdateExecution ==
    /\ \E valid \in BOOLEAN, id \in ExecutionIds,
          status \in { None } \cup { Some(st) : st \in ExecutionStatus } :
         IF ~valid
         THEN RestRespond("BadRequest") /\ UNCHANGED <<executions, clock>>
         ELSE IF id \notin DOMAIN executions
         THEN RestRespond("NotFound") /\ UNCHANGED <<executions, clock>>
         ELSE IF ~IsSome(status)
         THEN RestRespond("Ok") /\ UNCHANGED <<executions, clock>>
         ELSE \E t1 \in Now(clock) : \E t2 \in Now(t1) :
                /\ executions' = [executions EXCEPT ![id] =
                       ApplyStatus(executions[id], Unwrap(status), t1, t2)]
                /\ clock' = t2
                /\ RestRespond("Ok")
    /\ UNCHANGED notRest

\* POST /executions/{id}/cancel
CancelExecution ==
    /\ \E id \in ExecutionIds, now \in Now(clock) :
         IF id \notin DOMAIN executions
         THEN RestRespond("DatabaseError") /\ UNCHANGED <<executions, clock>>
         ELSE /\ executions' = [executions EXCEPT ![id] = MarkFailed(executions[id], now)]
              /\ clock' = now
              /\ RestRespond("Ok")
    /\ UNCHANGED notRest

\* The response to a retry request, with the request it answers.
RetryRespond(status, id, input, db_ok) ==
    /\ restResult' = Some(status)
    /\ retried' = Some([status |-> status, id |-> id, input |-> input, db_ok |-> db_ok])

\* retry_execution retrying an execution in any status.
RetryAnyStatus(valid, id, input, db_ok, now) ==
    IF ~valid
    THEN RetryRespond("BadRequest", id, input, db_ok) /\ UNCHANGED <<executions, clock>>
    ELSE IF ~db_ok
    THEN RetryRespond("InternalError", id, input, db_ok) /\ UNCHANGED <<executions, clock>>
    ELSE IF id \notin DOMAIN executions
    THEN RetryRespond("NotFound", id, input, db_ok) /\ UNCHANGED <<executions, clock>>
    ELSE /\ Len(executions) < MaxExecutions
         /\ executions' = Append(executions,
                NewExecution(executions[id].task_id,
                             IF IsSome(input) THEN Unwrap(input) ELSE executions[id].input,
                             now))
         /\ clock' = now
         /\ RetryRespond("Ok", id, input, db_ok)

\* retry_execution(execution_id, request): valid is the validator's verdict
\* on the id, db_ok whether the repository answers, now the instant read
\* for queued_at.
Retry(valid, id, input, db_ok, now) ==
    IF ~valid
    THEN RetryRespond("BadRequest", id, input, db_ok) /\ UNCHANGED <<executions, clock>>
    ELSE IF ~db_ok
    THEN RetryRespond("InternalError", id, input, db_ok) /\ UNCHANGED <<executions, clock>>
    ELSE IF id \notin DOMAIN executions
    THEN RetryRespond("NotFound", id, input, db_ok) /\ UNCHANGED <<executions, clock>>
    ELSE IF executions[id].status # "Failed"
    THEN RetryRespond("BadRequest", id, input, db_ok) /\ UNCHANGED <<executions, clock>>
    ELSE /\ Len(executions) < MaxExecutions
         /\ executions' = Append(executions,
                NewExecution(executions[id].task_id,
                             IF IsSome(input) THEN Unwrap(input) ELSE executions[id].input,
                             now))
         /\ clock' = now
         /\ RetryRespond("Ok", id, input, db_ok)

\* POST /executions/{id}/retry
RetryExecution ==
    /\ \E valid \in BOOLEAN, id \in ExecutionIds, db_ok \in BOOLEAN, now \in Now(clock),
          input \in { None } \cup { Some(in) : in \in ExecutionInputs \ { CreateInput } } :
         Retry(valid, id, input, db_ok, now)
    /\ UNCHANGED notRest

\* The MCP handler at rest: built without a batch processor, no call made.
McpIdle ==
    /\ tools = ToolList(NumTools)
    /\ batchProcessor = FALSE
    /\ nextRequestId = 1
    /\ activeRequests = {}
    /\ call = None
    /\ walk = NoWalk
    /\ conversion = None

InitRest == McpIdle /\ OutsideInit

NextRest == CreateExecution \/ UpdateExecution \/ CancelExecution

SpecRest == InitRest /\ [][NextRest]_vars

\* An execution as the handlers leave it in each status, all of it done at
\* instant 0.
StoredExecution(input, status) ==
    [task_id |-> 1, input |-> input, status |-> status, queued_at |-> 0,
     started_at |-> IF status = "Pending" THEN None ELSE Some(0),
     completed_at |-> IF status \in TerminalStatus THEN Some(0) ELSE None,
     duration_ms |-> IF status \in TerminalStatus THEN Some(0) ELSE None]

StoredExecutions ==
    { StoredExecution(input, status) : input \in ExecutionInputs, status \in ExecutionStatus }

\* Retries over a repository that already holds executions.
InitRetry ==
    /\ McpIdle /\ BridgeInit /\ RepoInit /\ CoreInit /\ RecordingInit /\ JsInit /\ AuthInit /\ IpcInit /\ ServiceInit
    /\ \E n \in 0..MaxExecutions : executions \in [1..n -> StoredExecutions]
    /\ clock = 0
    /\ restResult = None
    /\ retried = None

SpecRetry == InitRetry /\ [][RetryExecution]_vars

(***************************************************************************)
(* Executions (under SpecRest).                                            *)
(***************************************************************************)
StatusRank(st) == IF st = "Pending" THEN 0 ELSE IF st = "Running" THEN 1 ELSE 2

\* C11: an execution's status only moves forward along
\* Pending -> Running -> {Completed, Failed, Cancelled}: in every step, each
\* execution keeps its status or moves to one of a higher rank, so it never
\* leaves a terminal status and never returns from Running to Pending.
C11_StatusMovesForward ==
    [][\A id \in DOMAIN executions :
          \/ executions'[id].status = executions[id].status
          \/ StatusRank(executions'[id].status) > StatusRank(executions[id].status)]_vars

\* C12: an execution in a terminal status has started_at and completed_at
\* set, with queued_at <= started_at <= completed_at and
\* duration_ms = completed_at - started_at.
C12_TerminalTimestamps ==
    \A id \in DOMAIN executions :
        LET e == executions[id]
        IN  e.status \in TerminalStatus =>
              /\ IsSome(e.started_at)
              /\ IsSome(e.completed_at)
              /\ IsSome(e.duration_ms)
              /\ e.queued_at <= Unwrap(e.started_at)
              /\ Unwrap(e.started_at) <= Unwrap(e.completed_at)
              /\ Unwrap(e.duration_ms) = Unwrap(e.completed_at) - Unwrap(e.started_at)

\* C32: cancel_execution changes the status of a Pending or Running
\* execution only, and to Cancelled: every execution whose status a cancel
\* step changes was Pending or Running and is Cancelled afterwards, so a
\* Completed, Failed or Cancelled execution keeps its status.
C32_CancelOnlyActive ==
    [][CancelExecution =>
         \A id \in DOMAIN executions :
            \/ executions'[id].status = executions[id].status
            \/ /\ executions[id].status \in { "Pending", "Running" }
               /\ executions'[id].status = "Cancelled"]_vars

(***************************************************************************)
(* The registry bridge (ratchet-server/src/bridges.rs):                    *)
(* BridgeTaskRegistry over the registry service's task registry and the    *)
(* task repository of the store, and BridgeRegistryManager.                *)
(*                                                                         *)
(* The registry is the set of task definitions it holds; list_tasks        *)
(* returns them in an order of the registry's choosing.  The store is the  *)
(* sequence of its task records, a record's id being its index.  A         *)
(* record's time stamps are written by create alone and left out.          *)
(***************************************************************************)
Uuids == 1..2
TaskNames == { "a", "b" }
TaskVersions == { "1.0.0" }

\* TaskReference.source of a definition: "embedded" for the compiled-in
\* tasks, the Git source of BridgeTaskRegistry::new for the discovered ones.
TaskSources == { "embedded", "git" }

\* A definition's script is its source's text for that name.
Script(source, name) == <<source, name>>

TaskDefinition(uuid, name, version, source) ==
    [uuid |-> uuid, name |-> name, version |-> version, source |-> source,
     script |-> Script(source, name)]

TaskDefinitions ==
    { TaskDefinition(u, n, v, src) :
        u \in Uuids, n \in TaskNames, v \in TaskVersions, src \in TaskSources }

\* registry.list_tasks(): the registry's definitions, each once, in some order.
ListTasks(defs) ==
    { order \in [1..Cardinality(defs) -> defs] :
        \A i, j \in 1..Cardinality(defs) : order[i] = order[j] => i = j }

DefaultRepositoryId == 1

convert_task_definition_to_unified(task_def) ==
    [uuid |-> task_def.uuid,
     name |-> task_def.name,
     version |-> task_def.version,
     enabled |-> TRUE,
     registry_source |-> TRUE,
     in_sync |-> TRUE,
     source_code |-> task_def.script,
     repository_id |-> DefaultRepositoryId,
     sync_status |-> "synced"]

\* task_repo.find_by_uuid(uuid) is Ok(Some(_)).
FindByUuidNever(store, up, uuid) == FALSE
FindByUuid(store, up, uuid) == up /\ \E id \in DOMAIN store : store[id].uuid = uuid

\* task_repo.create(task): Ok inserts the record, Err (the store does not
\* answer) inserts nothing.
CreateTask(store, up, unified_task) == IF up THEN Append(store, unified_task) ELSE store

\* The loop of sync_tasks_to_database over the listed tasks, from the i-th:
\* the store afterwards.
RECURSIVE SyncLoop(_, _, _, _)
SyncLoop(tasks, i, store, up) ==
    IF i > Len(tasks) THEN store
    ELSE LET task == tasks[i]
             unified_task == convert_task_definition_to_unified(task)
         IN  IF FindByUuid(store, up, task.uuid)
             THEN SyncLoop(tasks, i + 1, store, up)
             ELSE SyncLoop(tasks, i + 1, CreateTask(store, up, unified_task), up)

\* A record the registry provided that is enabled and whose task the
\* registry no longer holds.
Discoverable(r) == \E def \in registry : def.name = r.name /\ def.version = r.version
Orphan(r) == r.registry_source /\ r.enabled /\ ~Discoverable(r)

\* What a sync did: the uuids it reports as added, updated and removed,
\* whether it changed the store, whether it repeats the sync before it (the
\* same operation, with nothing changed in between), and the orphans it
\* found in the store.
SyncRecord(kind, added, updated, removed, store) ==
    [kind |-> kind,
     repeat |-> IsSome(lastSync) /\ Unwrap(lastSync).kind = kind /\ ~changedSince,
     added |-> added, updated |-> updated, removed |-> removed,
     changed |-> store # taskStore,
     orphans |-> { taskStore[id].uuid : id \in { k \in DOMAIN taskStore : Orphan(taskStore[k]) } }]

\* registry.add_task(def): the registry service comes to hold a definition
\* (an embedded task or a discovered one, as in BridgeTaskRegistry::new).
AddTask ==
    /\ Cardinality(registry) < MaxRegistry
    /\ \E def \in TaskDefinitions \ registry : registry' = registry \cup { def }
    /\ changedSince' = TRUE
    /\ UNCHANGED <<notBridge, repositories, storeUp, taskStore, lastSync, loaded>>

\* A definition is no longer discoverable: the registry drops it.
RemoveTask ==
    /\ \E def \in registry : registry' = registry \ { def }
    /\ changedSince' = TRUE
    /\ UNCHANGED <<notBridge, repositories, storeUp, taskStore, lastSync, loaded>>

\* BridgeTaskRegistry::set_repositories
SetRepositories ==
    /\ ~repositories
    /\ repositories' = TRUE
    /\ changedSince' = TRUE
    /\ UNCHANGED <<notBridge, registry, storeUp, taskStore, lastSync, loaded>>

\* The store stops or resumes answering.
StoreFlips ==
    /\ storeUp' = ~storeUp
    /\ changedSince' = TRUE
    /\ UNCHANGED <<notBridge, registry, repositories, taskStore, lastSync, loaded>>

\* BridgeTaskRegistry::sync_tasks_to_database
SyncTasksToDatabase ==
    /\ \E tasks \in ListTasks(registry) :
         LET store == IF repositories THEN SyncLoop(tasks, 1, taskStore, storeUp)
                      ELSE taskStore
         IN  /\ taskStore' = store
             /\ lastSync' = Some(SyncRecord("sync_tasks_to_database",
                                 { store[id].uuid : id \in (Len(taskStore) + 1)..Len(store) },
                                 {}, {}, store))
    /\ changedSince' = FALSE
    /\ UNCHANGED <<notBridge, registry, repositories, storeUp, loaded>>

\* BridgeRegistryManager::sync_with_database
SyncWithDatabase ==
    /\ lastSync' = Some(SyncRecord("sync_with_database", {}, {}, {}, taskStore))
    /\ changedSince' = FALSE
    /\ UNCHANGED <<notBridge, registry, repositories, storeUp, taskStore, loaded>>

\* ratchet_interfaces::RegistryError
RegistryError(kind, name) == [kind |-> kind, name |-> name]

\* BridgeTaskRegistry::load_task_content(name): the script of the first
\* listed task of that name.
FirstNamed(tasks, name) ==
    LET hits == { i \in 1..Len(tasks) : tasks[i].name = name }
    IN  IF hits = {} THEN None
        ELSE Some(tasks[CHOOSE i \in hits : \A j \in hits : i <= j])

LoadTaskContent ==
    /\ \E name \in TaskNames, tasks \in ListTasks(registry) :
         LET hit == FirstNamed(tasks, name)
         IN  loaded' = Some([name |-> name,
                             among |-> { def \in registry : def.name = name },
                             result |-> IF IsSome(hit) THEN Ok(Unwrap(hit).script)
                                        ELSE Err(RegistryError("TaskNotFound", name))])
    /\ UNCHANGED <<notBridge, registry, repositories, storeUp, taskStore,
                   lastSync, changedSince>>

InitBridge == McpIdle /\ OutsideInit

NextSync ==
    \/ AddTask \/ RemoveTask \/ SetRepositories \/ StoreFlips
    \/ SyncTasksToDatabase \/ SyncWithDatabase

SpecSync == InitBridge /\ [][NextSync]_vars

NextLoad == AddTask \/ RemoveTask \/ LoadTaskContent

SpecLoad == InitBridge /\ [][NextLoad]_vars

TaskKey(r) == <<r.repository_id, r.name, r.version>>

\* C14: the store holds at most one record per (repository, name,
\* version), whatever the registry listed.
C14_OneRecordPerKey ==
    \A i, j \in DOMAIN taskStore :
        TaskKey(taskStore[i]) = TaskKey(taskStore[j]) => i = j

\* C15: right after a sync against an answering store, every record that
\* came from the registry and was no longer discoverable is reported as
\* removed and is soft-deleted (enabled = false, sync_status = "orphaned"),
\* and is still in the store.
C15_OrphanSoftDeleted ==
    (IsSome(lastSync) /\ ~changedSince /\ repositories /\ storeUp) =>
        /\ Unwrap(lastSync).orphans \subseteq Unwrap(lastSync).removed
        /\ \A uuid \in Unwrap(lastSync).orphans :
             \E id \in DOMAIN taskStore :
                 /\ taskStore[id].uuid = uuid
                 /\ ~taskStore[id].enabled
                 /\ taskStore[id].sync_status = "orphaned"

(***************************************************************************)
(* Loading a task's content (under SpecLoad).                              *)
(***************************************************************************)
\* embedded > filesystem > git > http
Precedence(source) ==
    IF source = "embedded" THEN 0
    ELSE IF source = "filesystem" THEN 1
    ELSE IF source = "git" THEN 2
    ELSE 3

\* C17: load_task_content(name) returns the script of the source of highest
\* precedence among the registry's definitions of that name.
C17_HighestPrecedenceWins ==
    IsSome(loaded) =>
        LET name == Unwrap(loaded).name
            named == Unwrap(loaded).among
        IN  named # {} =>
              /\ Unwrap(loaded).result.ok
              /\ \E best \in named :
                   /\ \A def \in named : Precedence(best.source) <= Precedence(def.source)
                   /\ Unwrap(loaded).result.value = best.script

(***************************************************************************)
(* The repository service                                                  *)
(* (ratchet-server/src/repository_services/repository_service.rs):         *)
(* EnhancedRepositoryService over the database's repository table and the  *)
(* task sync service.  repoDb maps a repository's id to its record; a      *)
(* deleted repository's id is not given again.                             *)
(***************************************************************************)
RepoIds == 1..(MaxRepositories + 1)

\* A repository's record: its sync_enabled flag and its type, one that
\* create_repository_instance_with_auth supports or one it does not.
RepositoryTypes == { "filesystem", "ftp" }
Repositories == [sync_enabled : BOOLEAN, repository_type : RepositoryTypes]

\* SecurityEvent::new(event_type, severity, message, context), with the
\* repository with_repository(id) attaches: None or Some(id).
SecurityEvent(event_type, severity, repository_id) ==
    [event_type |-> event_type, severity |-> severity, repository_id |-> repository_id]

\* What security_manager.authorize_repository_operation(id, operation,
\* context) answers: Ok(true), Ok(false) or an error.
Authorizations == { "authorized", "denied", "error" }

\* The errors an operation returns.
AccessDenied == "Access denied"
AuthorizationError == "authorize_repository_operation failed"
LogError == "log_security_event failed"
InstanceError == "create_repository_instance_with_auth failed"
SyncError == "Repository sync failed"
DatabaseError == "Failed to delete repository from database"
NotInitialized == "not found or not initialized"
HealthError == "Failed to check repository health"

\* An operation's answer: the operation, the repository it names, what the
\* security manager said of the caller's context, and the error returned
\* (None when the operation returned Ok).
RepoResult(operation, repository_id, authorization, error) ==
    Some([operation |-> operation, repository_id |-> repository_id,
          authorization |-> authorization, error |-> error])

\* The check every operation begins with, when there is a security manager:
\* let a refused caller through all the same.
AuthorizeOperationProceeds(repository_id, started, authorization, logged) ==
    [proceed |-> TRUE, error |-> None, events |-> <<>>]

\* The check every operation begins with.  Without a security manager the
\* operation proceeds.  With one, an error of the authorization is returned
\* as it is; a refused context has an Authorization event logged and is
\* answered with the access-denied error; an authorized one has the
\* operation's `started` event logged and proceeds.  `logged` says whether
\* log_security_event answers Ok: its error is returned in place of
\* anything else (`.await?`) and the event is not recorded.
AuthorizeOperation(repository_id, started, authorization, logged) ==
    IF ~security_manager
    THEN [proceed |-> TRUE, error |-> None, events |-> <<>>]
    ELSE IF authorization = "error"
    THEN [proceed |-> FALSE, error |-> Some(AuthorizationError), events |-> <<>>]
    ELSE IF ~logged
    THEN [proceed |-> FALSE, error |-> Some(LogError), events |-> <<>>]
    ELSE IF authorization = "denied"
    THEN [proceed |-> FALSE, error |-> Some(AccessDenied),
          events |-> <<SecurityEvent("Authorization", "Warning", repository_id)>>]
    ELSE [proceed |-> TRUE, error |-> None, events |-> <<started>>]

\* get_repository_with_context(id, context), as far as its error and the
\* events it logs go: the "read" authorization, then the database's row.
GetRepositoryWithContext(id, authorization, logged) ==
    AuthorizeOperation(Some(id), SecurityEvent("DataAccess", "Info", Some(id)),
                       authorization, logged)

\* The end of create and update: with a security manager the success is
\* logged, and the repository is read back through
\* get_repository_with_context for the answer.
ReadBack(id, events, logged, read, read_logged) ==
    IF ~security_manager
    THEN [error |-> None, events |-> events]
    ELSE IF ~logged
    THEN [error |-> Some(LogError), events |-> events]
    ELSE LET got == GetRepositoryWithContext(id, read, read_logged)
         IN  [error |-> got.error,
              events |-> events \o <<SecurityEvent("AdminOperation", "Info", Some(id))>>
                                \o got.events]

\* create_repository_instance_with_auth: Ok when the security manager, if
\* any, authenticates the access and the repository's type is supported.
CreateRepositoryInstance(repo, authenticated) ==
    authenticated /\ repo.repository_type \in { "filesystem", "git", "http" }

\* sync_service.sync_repository(id), called by `via` for a repository the
\* sync service has an instance of.
SyncCall(id, db, reg, via) ==
    IF id \in DOMAIN db /\ id \in reg
    THEN Some([id |-> id, sync_enabled |-> db[id].sync_enabled, via |-> via])
    ELSE None

\* The database's repositories with `id` mapped to `repo`.
WithRepo(db, id, repo) == [k \in DOMAIN db \cup { id } |-> IF k = id THEN repo ELSE db[k]]

\* The database's repositories without `id`.
WithoutRepo(db, id) == [k \in DOMAIN db \ { id } |-> db[k]]

\* set_security_manager
SetSecurityManager ==
    /\ repoResult = None
    /\ security_manager' = TRUE
    /\ repoResult' = None
    /\ securityEvents' = <<>>
    /\ repoSync' = None
    /\ UNCHANGED <<notRepo, active_repositories, repoCalls, repoDb, nextRepoId, registered>>

\* initialize_repositories: every sync-enabled repository whose instance
\* can be created is registered with the sync service.
InitializeRepositories ==
    /\ repoResult = None
    /\ \E authenticated \in BOOLEAN :
         registered' = registered \cup
             { id \in DOMAIN repoDb :
                 /\ repoDb[id].sync_enabled
                 /\ CreateRepositoryInstance(repoDb[id], authenticated) }
    /\ repoSync' = None
    /\ repoResult' = None
    /\ securityEvents' = <<>>
    /\ UNCHANGED <<notRepo, active_repositories, repoCalls, repoDb, nextRepoId, security_manager>>

\* get_repository_with_context
GetRepository ==
    /\ repoResult = None
    /\ \E authorization \in Authorizations, logged \in BOOLEAN, id \in RepoIds :
         LET got == GetRepositoryWithContext(id, authorization, logged)
         IN  /\ repoResult' = RepoResult("get", Some(id), authorization, got.error)
             /\ securityEvents' = got.events
    /\ repoSync' = None
    /\ UNCHANGED <<notRepo, active_repositories, repoCalls, repoDb, nextRepoId, registered, security_manager>>

\* create_repository_with_context: the authorization is asked for the
\* "admin" operation on repository -1, and the events before the row exists
\* name no repository.
CreateRepository ==
    /\ repoResult = None
    /\ \E authorization \in Authorizations, logged \in BOOLEAN, repository \in Repositories :
         LET check == AuthorizeOperation(None, SecurityEvent("AdminOperation", "Info", None),
                                         authorization, logged)
         IN  IF ~check.proceed
             THEN /\ repoResult' = RepoResult("create", None, authorization, check.error)
                  /\ securityEvents' = check.events
                  /\ repoSync' = None
                  /\ UNCHANGED <<repoDb, nextRepoId, registered>>
             ELSE /\ nextRepoId <= MaxRepositories
                  /\ \E authenticated \in BOOLEAN,
                        initial_sync \in { None, Some(FALSE), Some(TRUE) } :
                       LET id == nextRepoId
                           db == WithRepo(repoDb, id, repository)
                           reg == registered \cup { id }
                       IN  /\ repoDb' = db
                           /\ nextRepoId' = id + 1
                           /\ IF ~CreateRepositoryInstance(repository, authenticated)
                              THEN /\ registered' = registered
                                   /\ repoSync' = None
                                   /\ repoResult' = RepoResult("create", Some(id), authorization,
                                                               Some(InstanceError))
                                   /\ securityEvents' = check.events
                              ELSE /\ registered' = reg
                                   /\ repoSync' =
                                        IF (IF IsSome(initial_sync) THEN Unwrap(initial_sync)
                                            ELSE FALSE)
                                           /\ db[id].sync_enabled
                                        THEN SyncCall(id, db, reg, "create_repository")
                                        ELSE None
                                   /\ \E created_logged \in BOOLEAN, read \in Authorizations,
                                         read_logged \in BOOLEAN :
                                        LET end == ReadBack(id, check.events, created_logged,
                                                            read, read_logged)
                                        IN  /\ repoResult' = RepoResult("create", Some(id),
                                                                        authorization, end.error)
                                            /\ securityEvents' = end.events
    /\ UNCHANGED <<notRepo, active_repositories, repoCalls, security_manager>>

\* update_repository_with_context
UpdateRepository ==
    /\ repoResult = None
    /\ \E authorization \in Authorizations, logged \in BOOLEAN, id \in RepoIds :
         LET check == AuthorizeOperation(Some(id), SecurityEvent("AdminOperation", "Info", Some(id)),
                                         authorization, logged)
         IN  IF ~check.proceed \/ id \notin DOMAIN repoDb
             THEN /\ repoResult' = RepoResult("update", Some(id), authorization, check.error)
                  /\ securityEvents' = check.events
                  /\ repoSync' = None
                  /\ UNCHANGED <<repoDb, registered>>
             ELSE \E authenticated \in BOOLEAN,
                     sync_enabled \in { None, Some(FALSE), Some(TRUE) },
                     repository_type \in { None } \cup { Some(t) : t \in RepositoryTypes },
                     sync_after_update \in { None, Some(FALSE), Some(TRUE) } :
                    LET repo == [sync_enabled |-> IF IsSome(sync_enabled) THEN Unwrap(sync_enabled)
                                                  ELSE repoDb[id].sync_enabled,
                                 repository_type |-> IF IsSome(repository_type)
                                                     THEN Unwrap(repository_type)
                                                     ELSE repoDb[id].repository_type]
                        db == WithRepo(repoDb, id, repo)
                        reg == registered \cup { id }
                    IN  /\ repoDb' = db
                        /\ IF ~CreateRepositoryInstance(repo, authenticated)
                           THEN /\ registered' = registered
                                /\ repoSync' = None
                                /\ repoResult' = RepoResult("update", Some(id), authorization,
                                                            Some(InstanceError))
                                /\ securityEvents' = check.events
                           ELSE /\ registered' = reg
                                /\ repoSync' =
                                     IF (IF IsSome(sync_after_update) THEN Unwrap(sync_after_update)
                                         ELSE FALSE)
                                        /\ repo.sync_enabled
                                     THEN SyncCall(id, db, reg, "update_repository")
                                     ELSE None
                                /\ \E updated_logged \in BOOLEAN, read \in Authorizations,
                                      read_logged \in BOOLEAN :
                                     LET end == ReadBack(id, check.events, updated_logged,
                                                         read, read_logged)
                                     IN  /\ repoResult' = RepoResult("update", Some(id),
                                                                     authorization, end.error)
                                         /\ securityEvents' = end.events
    /\ UNCHANGED <<notRepo, active_repositories, repoCalls, nextRepoId, security_manager>>

\* delete_repository_with_context: the repository is unregistered from the
\* sync service, then deleted from the database; the database may fail.
DeleteRepository ==
    /\ repoResult = None
    /\ \E authorization \in Authorizations, logged \in BOOLEAN, id \in RepoIds :
         LET check == AuthorizeOperation(Some(id), SecurityEvent("AdminOperation", "Warning", Some(id)),
                                         authorization, logged)
         IN  IF ~check.proceed
             THEN /\ repoResult' = RepoResult("delete", Some(id), authorization, check.error)
                  /\ securityEvents' = check.events
                  /\ UNCHANGED <<repoDb, registered>>
             ELSE /\ registered' = registered \ { id }
                  /\ \E db_ok \in BOOLEAN :
                       IF ~db_ok
                       THEN /\ repoDb' = repoDb
                            /\ repoResult' = RepoResult("delete", Some(id), authorization,
                                                        Some(DatabaseError))
                            /\ securityEvents' = check.events
                       ELSE /\ repoDb' = WithoutRepo(repoDb, id)
                            /\ IF id \in DOMAIN repoDb /\ security_manager
                               THEN \E deleted_logged \in BOOLEAN :
                                      /\ repoResult' = RepoResult("delete", Some(id), authorization,
                                                           IF deleted_logged THEN None ELSE Some(LogError))
                                      /\ securityEvents' =
                                           IF deleted_logged
                                           THEN check.events \o
                                                <<SecurityEvent("AdminOperation", "Warning", Some(id))>>
                                           ELSE check.events
                               ELSE /\ repoResult' = RepoResult("delete", Some(id), authorization, None)
                                    /\ securityEvents' = check.events
    /\ repoSync' = None
    /\ UNCHANGED <<notRepo, active_repositories, repoCalls, nextRepoId, security_manager>>

\* sync_repository_with_context: the completion is logged as Info when the
\* sync reported no error and as Warning when it did.
SyncRepository ==
    /\ repoResult = None
    /\ \E authorization \in Authorizations, logged \in BOOLEAN, id \in RepoIds :
         LET check == AuthorizeOperation(Some(id), SecurityEvent("DataAccess", "Info", Some(id)),
                                         authorization, logged)
             sync == SyncCall(id, repoDb, registered, "sync_repository")
         IN  IF ~check.proceed
             THEN /\ repoSync' = None
                  /\ repoResult' = RepoResult("sync", Some(id), authorization, check.error)
                  /\ securityEvents' = check.events
             ELSE /\ repoSync' = sync
                  /\ IF ~IsSome(sync)
                     THEN /\ repoResult' = RepoResult("sync", Some(id), authorization,
                                                      Some(SyncError))
                          /\ securityEvents' = check.events
                     ELSE IF ~security_manager
                     THEN /\ repoResult' = RepoResult("sync", Some(id), authorization, None)
                          /\ securityEvents' = check.events
                     ELSE \E completed_logged \in BOOLEAN, severity \in { "Info", "Warning" } :
                            /\ repoResult' = RepoResult("sync", Some(id), authorization,
                                                 IF completed_logged THEN None ELSE Some(LogError))
                            /\ securityEvents' =
                                 IF completed_logged
                                 THEN check.events \o
                                      <<SecurityEvent("DataAccess", severity, Some(id))>>
                                 ELSE check.events
    /\ UNCHANGED <<notRepo, active_repositories, repoCalls, repoDb, nextRepoId, registered, security_manager>>

\* test_repository_connection(id): the instance is looked up in
\* active_repositories; a repository found answers a ConnectionTestResult.
TestRepositoryConnection ==
    /\ repoResult = None
    /\ \E id \in RepoIds :
         repoResult' = RepoResult("test_repository_connection", Some(id), "unchecked",
                           IF id \in active_repositories THEN None ELSE Some(NotInitialized))
    /\ securityEvents' = <<>>
    /\ repoSync' = None
    /\ UNCHANGED <<notRepo, active_repositories, repoCalls, repoDb, nextRepoId, registered, security_manager>>

\* get_repository_health(id): the instance is looked up in
\* active_repositories; its health_check may fail.
GetRepositoryHealth ==
    /\ repoResult = None
    /\ \E id \in RepoIds, health_ok \in BOOLEAN :
         repoResult' = RepoResult("get_repository_health", Some(id), "unchecked",
                           IF id \notin active_repositories THEN Some(NotInitialized)
                           ELSE IF health_ok THEN None ELSE Some(HealthError))
    /\ securityEvents' = <<>>
    /\ repoSync' = None
    /\ UNCHANGED <<notRepo, active_repositories, repoCalls, repoDb, nextRepoId, registered, security_manager>>

\* The operation's answer reaches its caller; the next operation begins.
RepositoryOperationReturns ==
    /\ repoResult # None
    /\ repoResult' = None
    /\ securityEvents' = <<>>
    /\ repoSync' = None
    /\ UNCHANGED <<notRepo, active_repositories, repoCalls, repoDb, nextRepoId, registered, security_manager>>

\* The service starts over a database that already holds repositories,
\* built by new or by new_with_security.
InitRepo ==
    /\ McpIdle /\ RestInit /\ BridgeInit /\ CoreInit /\ RecordingInit /\ JsInit /\ AuthInit /\ IpcInit /\ ServiceInit
    /\ \E n \in 0..MaxRepositories :
         /\ repoDb \in [1..n -> Repositories]
         /\ nextRepoId = n + 1
    /\ registered = {}
    /\ repoSync = None
    /\ security_manager \in BOOLEAN
    /\ repoResult = None
    /\ securityEvents = <<>>
    /\ active_repositories = {}
    /\ repoCalls = [c \in RepoCallers |-> [op |-> "none", id |-> 0, at |-> "idle"]]

NextRepo ==
    \/ SetSecurityManager \/ InitializeRepositories \/ GetRepository \/ CreateRepository
    \/ UpdateRepository \/ DeleteRepository \/ SyncRepository
    \/ TestRepositoryConnection \/ GetRepositoryHealth
    \/ RepositoryOperationReturns

SpecRepo == InitRepo /\ [][NextRepo]_vars

(***************************************************************************)
(* Repositories with sync disabled (under SpecRepo).                       *)
(***************************************************************************)
\* C16: no operation runs the sync service for a repository whose
\* sync_enabled flag is false.
C16_DisabledNeverSynced ==
    IsSome(repoSync) => Unwrap(repoSync).sync_enabled

(***************************************************************************)
(* Operations a security manager refuses (under SpecRepo).                 *)
(***************************************************************************)
\* The operation just answered was asked of a service with a security
\* manager, by a context the manager did not authorize for it.
Refused(result, manager) ==
    /\ manager
    /\ IsSome(result)
    /\ Unwrap(result).authorization = "denied"

\* The events hold an Authorization event.
AuthorizationLogged(events) ==
    \E i \in DOMAIN events : events[i].event_type = "Authorization"

\* C30, as the specification states it: with a security manager, a get,
\* create, update, delete or sync by a context that is not authorized for
\* it returns the access-denied error, logs an Authorization security
\* event, and changes neither the database nor the sync service's
\* registrations.
C30_RefusedAccessDeniedAndLogged ==
    [][ Refused(repoResult', security_manager') =>
          /\ Unwrap(repoResult').error = Some(AccessDenied)
          /\ AuthorizationLogged(securityEvents')
          /\ repoDb' = repoDb
          /\ registered' = registered ]_vars

\* C30, amended: such an operation returns an error and changes neither
\* the database nor the sync service's registrations; the error is the
\* access-denied one and the Authorization event is logged when
\* log_security_event accepts the event, and otherwise the error is
\* log_security_event's and no event is logged.
C30_RefusedChangesNothing ==
    [][ Refused(repoResult', security_manager') =>
          /\ repoDb' = repoDb
          /\ registered' = registered
          /\ nextRepoId' = nextRepoId
          /\ repoSync' = None
          /\ \/ /\ Unwrap(repoResult').error = Some(AccessDenied)
                /\ securityEvents' =
                     <<SecurityEvent("Authorization", "Warning", Unwrap(repoResult').repository_id)>>
             \/ /\ Unwrap(repoResult').error = Some(LogError)
                /\ securityEvents' = <<>> ]_vars

\* A refused delete of a repository the database holds and the sync
\* service has registered: access denied, logged, and both still there.
C30_Witness ==
    /\ security_manager
    /\ repoResult = RepoResult("delete", Some(1), "denied", Some(AccessDenied))
    /\ securityEvents = <<SecurityEvent("Authorization", "Warning", Some(1))>>
    /\ 1 \in DOMAIN repoDb
    /\ 1 \in registered

\* C34: a create_repository that returns an error leaves no record behind in
\* the database, and a delete_repository that returns an error, or false
\* because the database holds no such repository, leaves the registrations
\* with the sync service as they were.
C34_FailedMutationChangesNothing ==
    [][ IsSome(repoResult') =>
          LET result == Unwrap(repoResult')
          IN  /\ (result.operation = "create" /\ IsSome(result.error)) => repoDb' = repoDb
              /\ (result.operation = "delete"
                    /\ (IsSome(result.error) \/ Unwrap(result.repository_id) \notin DOMAIN repoDb))
                   => registered' = registered ]_vars

\* C35: test_repository_connection(id) and get_repository_health(id) find a
\* repository that create_repository or initialize_repositories registered:
\* they do not answer "not found or not initialized".
C35_RegisteredIsFound ==
    (IsSome(repoResult)
       /\ Unwrap(repoResult).operation \in { "test_repository_connection", "get_repository_health" }
       /\ Unwrap(Unwrap(repoResult).repository_id) \in registered)
      => Unwrap(repoResult).error # Some(NotInitialized)

\* Concurrent calls.  Each call of create_repository, update_repository and
\* delete_repository runs as two steps, one on each side of the await between
\* its database access and its call of the sync service; the steps of
\* different calls interleave.  The requests carry no option
\* (test_connection, initial_sync and sync_after_update are None).
CallAt(c, op, id, at) == [repoCalls EXCEPT ![c] = [op |-> op, id |-> id, at |-> at]]

\* create_repository_with_context up to the instance: authorization, the
\* database row, create_repository_instance_with_auth.
CreateBegins(c) ==
    /\ repoCalls[c].at = "idle"
    /\ \E authorization \in Authorizations, logged \in BOOLEAN :
         IF ~AuthorizeOperation(None, SecurityEvent("AdminOperation", "Info", None),
                                authorization, logged).proceed
         THEN /\ repoCalls' = CallAt(c, "create", 0, "returned")
              /\ UNCHANGED <<repoDb, nextRepoId>>
         ELSE /\ nextRepoId <= MaxRepositories
              /\ \E repository \in Repositories, authenticated \in BOOLEAN :
                   /\ repoDb' = WithRepo(repoDb, nextRepoId, repository)
                   /\ nextRepoId' = nextRepoId + 1
                   /\ repoCalls' = CallAt(c, "create", nextRepoId,
                                          IF CreateRepositoryInstance(repository, authenticated)
                                          THEN "created" ELSE "returned")
    /\ UNCHANGED <<notRepo, active_repositories, registered, repoSync, security_manager,
                   repoResult, securityEvents>>

\* create_repository_with_context from register_repository on
CreateRegisters(c) ==
    /\ repoCalls[c].at = "created"
    /\ registered' = registered \cup { repoCalls[c].id }
    /\ repoCalls' = CallAt(c, "create", repoCalls[c].id, "returned")
    /\ UNCHANGED <<notRepo, active_repositories, repoDb, nextRepoId, repoSync, security_manager,
                   repoResult, securityEvents>>

\* update_repository_with_context up to the instance: authorization, the
\* database update, create_repository_instance_with_auth.
UpdateBegins(c) ==
    /\ repoCalls[c].at = "idle"
    /\ \E authorization \in Authorizations, logged \in BOOLEAN, id \in RepoIds :
         IF \/ ~AuthorizeOperation(Some(id), SecurityEvent("AdminOperation", "Info", Some(id)),
                                   authorization, logged).proceed
            \/ id \notin DOMAIN repoDb
         THEN /\ repoCalls' = CallAt(c, "update", id, "returned")
              /\ UNCHANGED repoDb
         ELSE \E repository \in Repositories, authenticated \in BOOLEAN :
                /\ repoDb' = WithRepo(repoDb, id, repository)
                /\ repoCalls' = CallAt(c, "update", id,
                                       IF CreateRepositoryInstance(repository, authenticated)
                                       THEN "updated" ELSE "returned")
    /\ UNCHANGED <<notRepo, active_repositories, nextRepoId, registered, repoSync, security_manager,
                   repoResult, securityEvents>>

\* update_repository_with_context from register_repository on
UpdateRegisters(c) ==
    /\ repoCalls[c].at = "updated"
    /\ registered' = registered \cup { repoCalls[c].id }
    /\ repoCalls' = CallAt(c, "update", repoCalls[c].id, "returned")
    /\ UNCHANGED <<notRepo, active_repositories, repoDb, nextRepoId, repoSync, security_manager,
                   repoResult, securityEvents>>

\* delete_repository_with_context up to unregister_repository
DeleteBegins(c) ==
    /\ repoCalls[c].at = "idle"
    /\ \E authorization \in Authorizations, logged \in BOOLEAN, id \in RepoIds :
         IF ~AuthorizeOperation(Some(id), SecurityEvent("AdminOperation", "Warning", Some(id)),
                                authorization, logged).proceed
         THEN /\ repoCalls' = CallAt(c, "delete", id, "returned")
              /\ UNCHANGED registered
         ELSE /\ registered' = registered \ { id }
              /\ repoCalls' = CallAt(c, "delete", id, "unregistered")
    /\ UNCHANGED <<notRepo, active_repositories, repoDb, nextRepoId, repoSync, security_manager,
                   repoResult, securityEvents>>

\* delete_repository_with_context from the database delete on
DeleteFinishes(c) ==
    /\ repoCalls[c].at = "unregistered"
    /\ \E db_ok \in BOOLEAN :
         repoDb' = IF db_ok THEN WithoutRepo(repoDb, repoCalls[c].id) ELSE repoDb
    /\ repoCalls' = CallAt(c, "delete", repoCalls[c].id, "returned")
    /\ UNCHANGED <<notRepo, active_repositories, nextRepoId, registered, repoSync, security_manager,
                   repoResult, securityEvents>>

\* The caller has its answer and may call again.
CallReturns(c) ==
    /\ repoCalls[c].at = "returned"
    /\ repoCalls' = CallAt(c, "none", 0, "idle")
    /\ UNCHANGED <<notRepo, active_repositories, repoDb, nextRepoId, registered, repoSync,
                   security_manager, repoResult, securityEvents>>

NextConcurrent ==
    \E c \in RepoCallers :
       \/ CreateBegins(c) \/ CreateRegisters(c)
       \/ UpdateBegins(c) \/ UpdateRegisters(c)
       \/ DeleteBegins(c) \/ DeleteFinishes(c)
       \/ CallReturns(c)

SpecConcurrent == InitRepo /\ [][NextConcurrent]_vars

\* C33: once every concurrent create, update and delete has returned, every
\* repository registered with the sync service has a record in the database.
AllReturned == \A c \in RepoCallers : repoCalls[c].at \in { "idle", "returned" }
C33_RegisteredHasRecord ==
    AllReturned => registered \subseteq DOMAIN repoDb

(***************************************************************************)
(* The core error type (ratchet-core/src/error.rs): RatchetError, its      *)
(* nested error enums and the StandardizedError metadata of each variant.  *)
(* An error is its enum variant, the nested variant where there is one,    *)
(* and its message.  Durations are in milliseconds.                        *)
(***************************************************************************)
RatchetError(type, variant, message) == [type |-> type, variant |-> variant, message |-> message]

\* The messages errors carry.
Messages == { "", "123", "json" }

\* Every variant of RatchetError, with every variant of its nested enum.
RatchetErrors ==
    { RatchetError("Task", v, m) : v \in { "NotFound", "ValidationFailed", "Disabled", "VersionMismatch", "InvalidSource", "Deprecated" }, m \in Messages } \cup
    { RatchetError("Execution", v, m) : v \in { "NotFound", "Failed", "Cancelled", "Timeout", "InvalidState", "WorkerError" }, m \in Messages } \cup
    { RatchetError("Storage", v, m) : v \in { "ConnectionFailed", "QueryFailed", "TransactionFailed", "MigrationFailed", "NotFound", "DuplicateKey" }, m \in Messages } \cup
    { RatchetError("Config", v, m) : v \in { "MissingRequired", "InvalidValue", "FileNotFound", "ParseError", "MissingEnvVar" }, m \in Messages } \cup
    { RatchetError("Validation", v, m) : v \in { "InputValidation", "OutputValidation", "SchemaValidation", "InvalidFormat", "RequiredFieldMissing" }, m \in Messages } \cup
    { RatchetError("Service", v, m) : v \in { "NotFound", "Unavailable", "InitializationFailed", "DependencyInjectionFailed" }, m \in Messages } \cup
    { RatchetError("Plugin", v, m) : v \in { "NotFound", "LoadFailed", "InitializationFailed", "ApiVersionMismatch", "CapabilityNotSupported" }, m \in Messages } \cup
    { RatchetError(t, "", m) :
        t \in { "ExecutionError", "Network", "Io", "Serialization", "Timeout", "Other" },
        m \in Messages }

\* metadata(): the match on self, giving
\* (code, category, retryable, retry_delay, http_status).
MetadataMatch(err) ==
    CASE err.type = "Task" /\ err.variant = "NotFound" ->
           <<"TASK_NOT_FOUND", "NotFound", FALSE, None, 404>>
      [] err.type = "Task" /\ err.variant = "ValidationFailed" ->
           <<"TASK_VALIDATION_FAILED", "Validation", FALSE, None, 400>>
      [] err.type = "Task" /\ err.variant = "Disabled" ->
           <<"TASK_DISABLED", "Client", FALSE, None, 403>>
      [] err.type = "Task" /\ err.variant = "Deprecated" ->
           <<"TASK_DEPRECATED", "Client", FALSE, None, 410>>
      [] err.type = "Task" /\ err.variant = "VersionMismatch" ->
           <<"TASK_VERSION_MISMATCH", "Client", FALSE, None, 400>>
      [] err.type = "Task" /\ err.variant = "InvalidSource" ->
           <<"TASK_INVALID_SOURCE", "Validation", FALSE, None, 400>>
      [] err.type = "Execution" /\ err.variant = "NotFound" ->
           <<"EXECUTION_NOT_FOUND", "NotFound", FALSE, None, 404>>
      [] err.type = "Execution" /\ err.variant = "Failed" ->
           <<"EXECUTION_FAILED", "Server", FALSE, None, 500>>
      [] err.type = "Execution" /\ err.variant = "Cancelled" ->
           <<"EXECUTION_CANCELLED", "Client", FALSE, None, 400>>
      [] err.type = "Execution" /\ err.variant = "Timeout" ->
           <<"EXECUTION_TIMEOUT", "Network", TRUE, Some(2000), 408>>
      [] err.type = "Execution" /\ err.variant = "InvalidState" ->
           <<"EXECUTION_INVALID_STATE", "Client", FALSE, None, 400>>
      [] err.type = "Execution" /\ err.variant = "WorkerError" ->
           <<"EXECUTION_WORKER_ERROR", "Server", TRUE, Some(1000), 500>>
      [] err.type = "ExecutionError" ->
           <<"EXECUTION_ERROR", "Server", FALSE, None, 500>>
      [] err.type = "Storage" /\ err.variant = "NotFound" ->
           <<"ENTITY_NOT_FOUND", "NotFound", FALSE, None, 404>>
      [] err.type = "Storage" /\ err.variant = "ConnectionFailed" ->
           <<"STORAGE_CONNECTION_FAILED", "Network", TRUE, Some(1000), 503>>
      [] err.type = "Storage" /\ err.variant = "QueryFailed" ->
           <<"STORAGE_QUERY_FAILED", "Server", FALSE, None, 500>>
      [] err.type = "Storage" /\ err.variant = "TransactionFailed" ->
           <<"STORAGE_TRANSACTION_FAILED", "Server", TRUE, Some(500), 500>>
      [] err.type = "Storage" /\ err.variant = "MigrationFailed" ->
           <<"STORAGE_MIGRATION_FAILED", "Configuration", FALSE, None, 500>>
      [] err.type = "Storage" /\ err.variant = "DuplicateKey" ->
           <<"STORAGE_DUPLICATE_KEY", "Client", FALSE, None, 409>>
      [] err.type = "Config" ->
           <<"CONFIG_ERROR", "Configuration", FALSE, None, 500>>
      [] err.type = "Validation" ->
           <<"VALIDATION_ERROR", "Validation", FALSE, None, 400>>
      [] err.type = "Service" /\ err.variant = "NotFound" ->
           <<"SERVICE_NOT_FOUND", "NotFound", FALSE, None, 404>>
      [] err.type = "Service" /\ err.variant = "Unavailable" ->
           <<"SERVICE_UNAVAILABLE", "Network", TRUE, Some(5000), 503>>
      [] err.type = "Service" /\ err.variant = "InitializationFailed" ->
           <<"SERVICE_INITIALIZATION_FAILED", "Configuration", FALSE, None, 500>>
      [] err.type = "Service" /\ err.variant = "DependencyInjectionFailed" ->
           <<"SERVICE_DEPENDENCY_INJECTION_FAILED", "Configuration", FALSE, None, 500>>
      [] err.type = "Plugin" /\ err.variant = "NotFound" ->
           <<"PLUGIN_NOT_FOUND", "NotFound", FALSE, None, 404>>
      [] err.type = "Plugin" /\ err.variant = "LoadFailed" ->
           <<"PLUGIN_LOAD_FAILED", "Configuration", FALSE, None, 500>>
      [] err.type = "Plugin" /\ err.variant = "InitializationFailed" ->
           <<"PLUGIN_INITIALIZATION_FAILED", "Configuration", FALSE, None, 500>>
      [] err.type = "Plugin" /\ err.variant = "ApiVersionMismatch" ->
           <<"PLUGIN_API_VERSION_MISMATCH", "Configuration", FALSE, None, 500>>
      [] err.type = "Plugin" /\ err.variant = "CapabilityNotSupported" ->
           <<"PLUGIN_CAPABILITY_NOT_SUPPORTED", "Client", FALSE, None, 400>>
      [] err.type = "Network" ->
           <<"NETWORK_ERROR", "Network", TRUE, Some(1000), 503>>
      [] err.type = "Io" ->
           <<"IO_ERROR", "Server", TRUE, Some(500), 500>>
      [] err.type = "Serialization" ->
           <<"SERIALIZATION_ERROR", "Client", FALSE, None, 400>>
      [] err.type = "Timeout" ->
           <<"TIMEOUT", "Network", TRUE, Some(2000), 408>>
      [] OTHER ->
           <<"INTERNAL_ERROR", "Server", FALSE, None, 500>>

ErrorMetadata(row) ==
    [code |-> row[1], http_status |-> row[5], retryable |-> row[3],
     retry_delay |-> row[4], category |-> row[2]]

metadataOneSecond(err) ==
    [ErrorMetadata(MetadataMatch(err)) EXCEPT !.retry_delay = IF @ = None THEN None ELSE Some(1000)]

metadataNoDelay(err) == [ErrorMetadata(MetadataMatch(err)) EXCEPT !.retry_delay = None]

\* impl StandardizedError for RatchetError: metadata
metadata(err) == ErrorMetadata(MetadataMatch(err))

is_retryableByStatus(err) == metadata(err).http_status # 404

\* StandardizedError::is_retryable, RatchetError::is_retryable
is_retryable(err) == metadata(err).retryable

\* StandardizedError::retry_delay
retry_delay(err) == metadata(err).retry_delay

\* StandardizedError::http_status, RatchetError::status_code
status_code(err) == metadata(err).http_status

\* RatchetError::error_code: its own match on self.
error_code(err) ==
    CASE err.type = "Task" /\ err.variant = "NotFound" -> "TASK_NOT_FOUND"
      [] err.type = "Execution" /\ err.variant = "NotFound" -> "EXECUTION_NOT_FOUND"
      [] err.type = "Storage" /\ err.variant = "NotFound" -> "ENTITY_NOT_FOUND"
      [] err.type = "Task" /\ err.variant = "Disabled" -> "TASK_DISABLED"
      [] err.type = "Task" /\ err.variant = "Deprecated" -> "TASK_DEPRECATED"
      [] err.type = "Validation" -> "VALIDATION_ERROR"
      [] err.type = "Config" -> "CONFIG_ERROR"
      [] err.type = "Timeout" -> "TIMEOUT"
      [] err.type = "Network" -> "NETWORK_ERROR"
      [] err.type = "Service" /\ err.variant = "Unavailable" -> "SERVICE_UNAVAILABLE"
      [] OTHER -> "INTERNAL_ERROR"

\* An error is built and classified.
Classify ==
    /\ \E err \in RatchetErrors :
         classified' = Some([error |-> err,
                             metadata |-> metadata(err),
                             is_retryable |-> is_retryable(err),
                             retry_delay |-> retry_delay(err),
                             status_code |-> status_code(err),
                             error_code |-> error_code(err)])
    /\ UNCHANGED notCore

InitCore == McpIdle /\ OutsideInit

SpecCore == InitCore /\ [][Classify]_vars

(***************************************************************************)
(* The error metadata (under SpecCore).                                    *)
(***************************************************************************)
Classified(type, variant) ==
    /\ IsSome(classified)
    /\ Unwrap(classified).error.type = type
    /\ Unwrap(classified).error.variant = variant

MetadataIs(code, http_status, category, retryable, delay) ==
    /\ Unwrap(classified).metadata.code = code
    /\ Unwrap(classified).metadata.http_status = http_status
    /\ Unwrap(classified).metadata.category = category
    /\ Unwrap(classified).metadata.retryable = retryable
    /\ Unwrap(classified).metadata.retry_delay = delay

\* C18: the metadata of TaskNotFound is (TASK_NOT_FOUND, 404, NotFound,
\* not retryable, no delay), of ExecutionTimeout (EXECUTION_TIMEOUT, 408,
\* Network, retryable, 2 s), of StorageConnectionFailed
\* (STORAGE_CONNECTION_FAILED, 503, Network, retryable, 1 s), of any
\* Validation error (VALIDATION_ERROR, 400, Validation, not retryable, no
\* delay); WorkerError is retryable with a delay of 1 s; and status_code()
\* is the metadata's http_status for every error.
C18_ErrorMetadataTable ==
    IsSome(classified) =>
        /\ Classified("Task", "NotFound") =>
             MetadataIs("TASK_NOT_FOUND", 404, "NotFound", FALSE, None)
        /\ Classified("Execution", "Timeout") =>
             MetadataIs("EXECUTION_TIMEOUT", 408, "Network", TRUE, Some(2000))
        /\ Classified("Storage", "ConnectionFailed") =>
             MetadataIs("STORAGE_CONNECTION_FAILED", 503, "Network", TRUE, Some(1000))
        /\ Unwrap(classified).error.type = "Validation" =>
             MetadataIs("VALIDATION_ERROR", 400, "Validation", FALSE, None)
        /\ Classified("Execution", "WorkerError") =>
             /\ Unwrap(classified).metadata.retryable
             /\ Unwrap(classified).metadata.retry_delay = Some(1000)
        /\ Unwrap(classified).status_code = Unwrap(classified).metadata.http_status

\* An execution timeout has been classified.
C18_Witness ==
    /\ Classified("Execution", "Timeout")
    /\ Unwrap(classified).status_code = 408
    /\ Unwrap(classified).retry_delay = Some(2000)

\* C19: every variant of ValidationError, and TaskError::ValidationFailed,
\* is not retryable and has no retry delay; Network and Timeout errors are
\* retryable.
C19_ValidationNeverRetryable ==
    IsSome(classified) =>
        /\ (Unwrap(classified).error.type = "Validation"
            \/ Classified("Task", "ValidationFailed")) =>
             /\ ~Unwrap(classified).is_retryable
             /\ Unwrap(classified).retry_delay = None
        /\ Unwrap(classified).error.type \in { "Network", "Timeout" } =>
             Unwrap(classified).is_retryable

\* A schema validation failure has been classified.
C19_Witness ==
    /\ Classified("Validation", "SchemaValidation")
    /\ ~Unwrap(classified).is_retryable
    /\ Unwrap(classified).retry_delay = None

\* C38: for every RatchetError, error_code() is the code of metadata().
C38_ErrorCodeIsMetadataCode ==
    IsSome(classified) =>
        Unwrap(classified).error_code = Unwrap(classified).metadata.code

(***************************************************************************)
(* HTTP recording (ratchet-http/src/recording.rs): the process-wide        *)
(* RECORDING_STATE behind its mutex, and the requests.har files.  A        *)
(* recording session is a task execution that calls set_recording_dir with *)
(* its own directory, record_http_request for each request it makes, and   *)
(* finalize_recording; a session's directory is named by the session.      *)
(* Each call holds the mutex for its whole body, so the calls of           *)
(* concurrent sessions interleave call by call.                            *)
(***************************************************************************)
RecordingState(session_dir, entries) == [session_dir |-> session_dir, entries |-> entries]

\* The HAR entry of the n-th request of a session.
HarEntry(session, n) == [session |-> session, request |-> n]

\* set_recording_dir(session_dir)
SetRecordingDir(s) ==
    /\ sessions[s].stage = "new"
    /\ recordingState' = Some(RecordingState(s, <<>>))
    /\ sessions' = [sessions EXCEPT ![s].stage = "recording"]
    /\ UNCHANGED <<notRecording, harFiles, recordingCall, finalized, jsonFiles>>

\* record_http_request(..)
RecordHttpRequest(s) ==
    /\ sessions[s].stage = "recording"
    /\ Len(sessions[s].sent) < MaxRecorded
    /\ LET entry == HarEntry(s, Len(sessions[s].sent) + 1)
       IN  /\ recordingState' =
                IF IsSome(recordingState)
                THEN Some([Unwrap(recordingState) EXCEPT !.entries = Append(@, entry)])
                ELSE recordingState
           /\ sessions' = [sessions EXCEPT ![s].sent = Append(@, entry)]
    /\ UNCHANGED <<notRecording, harFiles, recordingCall, finalized, jsonFiles>>

\* finalize_recording(): the state is taken, then requests.har is written
\* into its directory; the write may fail.
FinalizeRecording(s) ==
    /\ sessions[s].stage = "recording"
    /\ \E write_ok \in BOOLEAN :
         IF IsSome(recordingState)
         THEN /\ recordingState' = None
              /\ harFiles' = IF write_ok
                             THEN [harFiles EXCEPT ![Unwrap(recordingState).session_dir] =
                                       Some(Unwrap(recordingState).entries)]
                             ELSE harFiles
              /\ sessions' = [sessions EXCEPT ![s].stage = IF write_ok THEN "done" ELSE "failed"]
         ELSE /\ UNCHANGED <<recordingState, harFiles>>
              /\ sessions' = [sessions EXCEPT ![s].stage = "done"]
    /\ UNCHANGED <<notRecording, recordingCall, finalized, jsonFiles>>

InitRecording == McpIdle /\ OutsideInit

NextRecording ==
    \E s \in Sessions : SetRecordingDir(s) \/ RecordHttpRequest(s) \/ FinalizeRecording(s)

SpecRecording == InitRecording /\ [][NextRecording]_vars

(***************************************************************************)
(* The calls of one task's recording, in any order (SpecFinalize): each is *)
(* a function of RECORDING_STATE and the files, giving the state and the   *)
(* files afterwards and the Result returned.  is_recording and             *)
(* get_recording_dir read the state.                                       *)
(***************************************************************************)
RecordingOutcome(state, har, json, ok) ==
    [state |-> state, har |-> har, json |-> json, ok |-> ok]

\* is_recording()
is_recording(state) == IsSome(state)

\* get_recording_dir()
get_recording_dir(state) ==
    IF IsSome(state) THEN Some(Unwrap(state).session_dir) ELSE None

\* set_recording_dir(session_dir)
set_recording_dir(state, har, json, session_dir) ==
    RecordingOutcome(Some(RecordingState(session_dir, <<>>)), har, json, TRUE)

\* record_http_request(..): the entry is pushed while a recording is on.
record_http_request(state, har, json, entry) ==
    IF IsSome(state)
    THEN RecordingOutcome(Some([Unwrap(state) EXCEPT !.entries = Append(@, entry)]),
                          har, json, TRUE)
    ELSE RecordingOutcome(state, har, json, TRUE)

\* record_input(..) and record_output(..): `file` is written into the
\* session's directory while a recording is on; the write may fail.
record_json(state, har, json, file, write_ok) ==
    IF IsSome(state)
    THEN IF write_ok
         THEN RecordingOutcome(state, har,
                  [json EXCEPT ![Unwrap(state).session_dir] = @ \cup { file }], TRUE)
         ELSE RecordingOutcome(state, har, json, FALSE)
    ELSE RecordingOutcome(state, har, json, TRUE)

\* finalize_recording keeping the state when the write fails.
finalize_recordingKeepsOnError(state, har, json, write_ok) ==
    IF IsSome(state)
    THEN IF write_ok
         THEN RecordingOutcome(None,
                  [har EXCEPT ![Unwrap(state).session_dir] = Some(Unwrap(state).entries)],
                  json, TRUE)
         ELSE RecordingOutcome(state, har, json, FALSE)
    ELSE RecordingOutcome(state, har, json, TRUE)

\* finalize_recording(): state.take(), then requests.har is written into
\* the directory taken; the write may fail.
finalize_recording(state, har, json, write_ok) ==
    IF IsSome(state)
    THEN IF write_ok
         THEN RecordingOutcome(None,
                  [har EXCEPT ![Unwrap(state).session_dir] = Some(Unwrap(state).entries)],
                  json, TRUE)
         ELSE RecordingOutcome(None, har, json, FALSE)
    ELSE RecordingOutcome(state, har, json, TRUE)

\* A call is made and returns: its outcome becomes the state and the files.
RecordingCallReturns(op, outcome, done) ==
    /\ recordingState' = outcome.state
    /\ harFiles' = outcome.har
    /\ jsonFiles' = outcome.json
    /\ recordingCall' = Some([op |-> op, ok |-> outcome.ok])
    /\ finalized' = done
    /\ UNCHANGED <<notRecording, sessions>>

CallSetRecordingDir ==
    \E dir \in Sessions :
        RecordingCallReturns("set_recording_dir",
            set_recording_dir(recordingState, harFiles, jsonFiles, dir), FALSE)

CallRecordHttpRequest ==
    /\ IsSome(recordingState) => Len(Unwrap(recordingState).entries) < MaxRecorded
    /\ RecordingCallReturns("record_http_request",
           record_http_request(recordingState, harFiles, jsonFiles,
               HarEntry(IF IsSome(recordingState) THEN Unwrap(recordingState).session_dir ELSE 1,
                        IF IsSome(recordingState) THEN Len(Unwrap(recordingState).entries) + 1
                        ELSE 1)),
           finalized)

CallRecordInput ==
    \E write_ok \in BOOLEAN :
        RecordingCallReturns("record_input",
            record_json(recordingState, harFiles, jsonFiles, "input.json", write_ok), finalized)

CallRecordOutput ==
    \E write_ok \in BOOLEAN :
        RecordingCallReturns("record_output",
            record_json(recordingState, harFiles, jsonFiles, "output.json", write_ok), finalized)

CallFinalizeRecording ==
    \E write_ok \in BOOLEAN :
        RecordingCallReturns("finalize_recording",
            finalize_recording(recordingState, harFiles, jsonFiles, write_ok), TRUE)

NextFinalize ==
    \/ CallSetRecordingDir \/ CallRecordHttpRequest \/ CallRecordInput
    \/ CallRecordOutput \/ CallFinalizeRecording

SpecFinalize == InitRecording /\ [][NextFinalize]_vars

(***************************************************************************)
(* The HAR file of a session (under SpecRecording).                        *)
(***************************************************************************)
\* C20: once a session's finalize_recording has returned Ok, the
\* requests.har of its directory holds exactly the entries of the requests
\* the session recorded, in the order recorded.
C20_HarHoldsSessionEntries ==
    \A s \in Sessions :
        sessions[s].stage = "done" => harFiles[s] = Some(sessions[s].sent)

(***************************************************************************)
(* The end of a recording (under SpecFinalize).                            *)
(***************************************************************************)
\* The files of the directories.
RecordingFiles == <<harFiles, jsonFiles>>

\* C37: once finalize_recording has returned, with Ok or with a write
\* error, and until the next set_recording_dir: is_recording() is false
\* and get_recording_dir() is None; record_input, record_output and
\* record_http_request return Ok and change nothing; and another
\* finalize_recording returns Ok and writes nothing.
C37_FinalizeEndsRecording ==
    [][/\ finalized' =>
            /\ ~is_recording(recordingState')
            /\ get_recording_dir(recordingState') = None
       /\ (finalized /\ finalized') =>
            /\ Unwrap(recordingCall').ok
            /\ RecordingFiles' = RecordingFiles
            /\ recordingState' = recordingState]_vars

\* A finalize_recording whose write failed was followed by a
\* record_http_request that returned Ok.
C37_Witness ==
    /\ finalized
    /\ recordingState = None
    /\ harFiles = [dir \in Sessions |-> None]
    /\ recordingCall = Some([op |-> "record_http_request", ok |-> TRUE])

(***************************************************************************)
(* The JavaScript conversions (ratchet-js/src/conversion.rs):              *)
(* prepare_input_argument and convert_js_result_to_json around the script  *)
(* engine.  A text is the sequence of its characters; a JSON value is null *)
(* or a string.  The engine evaluates the source JSON.parse('..') as       *)
(* ECMAScript does: the string literal's escape sequences are replaced     *)
(* first, and JSON.parse reads the resulting text.                         *)
(***************************************************************************)
MaxStringLen == 3        \* the longest input string bound to a script

Apostrophe == "'"
Quote == "\""
Backslash == "\\"
LineFeed == "\n"

Chars == { "a", "n", Apostrophe, Quote, Backslash, LineFeed }

JsonNull == [kind |-> "null", text |-> <<>>]
JsonString(text) == [kind |-> "string", text |-> text]

Strings(n) == UNION { [1..k -> Chars] : k \in 0..n }

\* The input values of a task.
JsonValues == { JsonNull } \cup { JsonString(text) : text \in Strings(MaxStringLen) }

NullText == <<"n", "u", "l", "l">>

JsExecutionError(variant) == [kind |-> variant, about |-> "conversion"]

\* The characters of a string as JSON writes them between the quotes
\* (serde_json::to_string and JSON.stringify agree on these characters).
RECURSIVE JsonEscape(_)
JsonEscape(text) ==
    IF text = <<>> THEN <<>>
    ELSE LET c == Head(text)
         IN  (IF c = Quote THEN <<Backslash, Quote>>
              ELSE IF c = Backslash THEN <<Backslash, Backslash>>
              ELSE IF c = LineFeed THEN <<Backslash, "n">>
              ELSE <<c>>) \o JsonEscape(Tail(text))

\* serde_json::to_string(value); it does not fail on a JsonValue.
SerdeToString(value) ==
    IF value.kind = "null" THEN NullText
    ELSE <<Quote>> \o JsonEscape(value.text) \o <<Quote>>

\* str::replace("'", "\\'")
RECURSIVE ReplaceApostrophe(_)
ReplaceApostrophe(text) ==
    IF text = <<>> THEN <<>>
    ELSE (IF Head(text) = Apostrophe THEN <<Backslash, Apostrophe>> ELSE <<Head(text)>>)
         \o ReplaceApostrophe(Tail(text))

\* What an escape sequence \c of a string literal stands for: \n is a line
\* feed, a backslash before a line terminator continues the line, and
\* before any other character of Chars it stands for that character.
JsEscapeValue(c) ==
    IF c = "n" THEN <<LineFeed>>
    ELSE IF c = LineFeed THEN <<>>
    ELSE <<c>>

\* The value of the string literal '..' with these characters between its
\* apostrophes: None when the source is not a string literal (a bare
\* apostrophe or line feed inside it, or a backslash at its end).
RECURSIVE JsStringLiteral(_)
JsStringLiteral(chars) ==
    IF chars = <<>> THEN Some(<<>>)
    ELSE IF Head(chars) \in { Apostrophe, LineFeed } THEN None
    ELSE IF Head(chars) = Backslash
    THEN IF Len(chars) = 1 THEN None
         ELSE LET rest == JsStringLiteral(SubSeq(chars, 3, Len(chars)))
              IN  IF rest = None THEN None
                  ELSE Some(JsEscapeValue(chars[2]) \o Unwrap(rest))
    ELSE LET rest == JsStringLiteral(Tail(chars))
         IN  IF rest = None THEN None ELSE Some(<<Head(chars)>> \o Unwrap(rest))

\* The string a JSON text holds after its opening quote: None when the text
\* is not one JSON string (an escape JSON does not have, a bare control
\* character, no closing quote, or characters after it).
RECURSIVE JsonStringBody(_)
JsonStringBody(text) ==
    IF text = <<>> THEN None
    ELSE IF Head(text) = Quote THEN (IF Len(text) = 1 THEN Some(<<>>) ELSE None)
    ELSE IF Head(text) = LineFeed THEN None
    ELSE IF Head(text) = Backslash
    THEN IF Len(text) = 1 \/ text[2] \notin { Quote, Backslash, "n" } THEN None
         ELSE LET rest == JsonStringBody(SubSeq(text, 3, Len(text)))
              IN  IF rest = None THEN None
                  ELSE Some(<<IF text[2] = "n" THEN LineFeed ELSE text[2]>> \o Unwrap(rest))
    ELSE LET rest == JsonStringBody(Tail(text))
         IN  IF rest = None THEN None ELSE Some(<<Head(text)>> \o Unwrap(rest))

\* JSON.parse(text) and serde_json::from_str(text): the value, or None.
JsonParse(text) ==
    IF text = NullText THEN Some(JsonNull)
    ELSE IF text # <<>> /\ Head(text) = Quote
    THEN LET body == JsonStringBody(Tail(text))
         IN  IF body = None THEN None ELSE Some(JsonString(Unwrap(body)))
    ELSE None

\* context.eval("JSON.parse('<text>')")
EvalJsonParse(text) ==
    LET literal == JsStringLiteral(text)
    IN  IF literal = None THEN None ELSE JsonParse(Unwrap(literal))

\* prepare_input_argument(context, input_data)
prepare_input_argument(input_data) ==
    LET input_js_str == SerdeToString(input_data)
        parsed == EvalJsonParse(ReplaceApostrophe(input_js_str))
    IN  IF parsed = None
        THEN Err(JsExecutionError("ExecutionError"))
        ELSE Ok(Unwrap(parsed))

\* convert_js_result_to_json(context, result): JSON.stringify of the result,
\* then serde_json::from_str of that text.
convert_js_result_to_json(result) ==
    LET json_str == SerdeToString(result)
        parsed == JsonParse(json_str)
    IN  IF parsed = None
        THEN Err(JsExecutionError("InvalidOutputFormat"))
        ELSE Ok(Unwrap(parsed))

\* A task whose script returns its argument is run on an input.
RunIdentityScript ==
    /\ \E input \in JsonValues :
         LET argument == prepare_input_argument(input)
         IN  jsRun' = Some([input |-> input,
                            argument |-> argument,
                            output |-> IF argument.ok
                                       THEN convert_js_result_to_json(argument.value)
                                       ELSE argument])
    /\ UNCHANGED notJs

InitJs == McpIdle /\ OutsideInit

SpecJs == InitJs /\ [][RunIdentityScript]_vars

(***************************************************************************)
(* The input's round trip through the engine (under SpecJs).               *)
(***************************************************************************)
\* C21: for every JSON input, prepare_input_argument binds an argument equal
\* to the input, and an identity script followed by
\* convert_js_result_to_json returns the input unchanged.
C21_InputRoundTrips ==
    IsSome(jsRun) =>
        /\ Unwrap(jsRun).argument = Ok(Unwrap(jsRun).input)
        /\ Unwrap(jsRun).output = Ok(Unwrap(jsRun).input)

(***************************************************************************)
(* The authentication middleware (ratchet-web/src/middleware/auth.rs):     *)
(* JwtManager::authenticate over the request's headers, and AuthContext's  *)
(* permissions.  A token is what its text decodes to: its claims, whether  *)
(* jsonwebtoken::decode accepts it (signature, issuer, audience), and its  *)
(* expiry.  The manager's repository factory, when it has one, holds the   *)
(* session table and the API key table, keyed by the key's hash.           *)
(***************************************************************************)
AuthContext(user_id, role, session_id, is_authenticated) ==
    [user_id |-> user_id, role |-> role, session_id |-> session_id,
     is_authenticated |-> is_authenticated]

\* AuthContext::default()
AuthContextDefault == AuthContext("anonymous", "guest", "none", FALSE)

\* AuthContext::authenticated(user_id, role, session_id)
AuthContextAuthenticated(user_id, role, session_id) ==
    AuthContext(user_id, role, session_id, TRUE)

can_admin(ctx) == ctx.is_authenticated /\ ctx.role = "admin"

can_writeAnyone(ctx) == ctx.role \in { "admin", "user", "service" }
can_write(ctx) == ctx.is_authenticated /\ ctx.role \in { "admin", "user", "service" }

can_read(ctx) == TRUE

can_execute_tasks(ctx) == ctx.is_authenticated /\ ctx.role \in { "admin", "user", "service" }

WebError(kind, message) == [kind |-> kind, about |-> message]

Roles == { "admin", "user", "service", "readonly", "guest", "" }
SessionIds == { "s1", "s2" }

\* The tokens a request may carry.
Tokens ==
    [sub : { "user123" }, role : { "admin", "user", "readonly" }, jti : SessionIds,
     decodes : BOOLEAN, exp : 0..1]

\* The instant Utc::now().timestamp() returns while a request is served.
AuthNow == 1

ApiKeys == { "demo-api-key", "k1", "other" }

\* hash_api_key(api_key): the SHA-256 digest, in hexadecimal.
hash_api_key(api_key) == <<"sha256", api_key>>

ApiKeyPermissions == { "Admin", "Full", "ReadOnly", "ExecuteOnly" }

\* The header Authorization: absent, Bearer <token>, ApiKey <key>, or
\* another scheme; and the header X-API-Key.
Bearer(token) == [scheme |-> "Bearer", token |-> token]
ApiKeyScheme(key) == [scheme |-> "ApiKey", key |-> key]
BasicScheme == [scheme |-> "Basic"]

HeaderMaps ==
    [authorization : { None } \cup { Some(Bearer(t)) : t \in Tokens }
                     \cup { Some(ApiKeyScheme(k)) : k \in ApiKeys } \cup { Some(BasicScheme) },
     x_api_key : { None } \cup { Some(k) : k \in ApiKeys }]

\* The repositories behind a manager: whether the database answers, the
\* sessions that exist and are valid, and the active API keys by hash.
RepositoryFactories ==
    [up : BOOLEAN,
     sessions : SUBSET { "s1" },
     api_keys : { <<>> } \cup { [h \in { hash_api_key("k1") } |-> p] : p \in ApiKeyPermissions }]

\* verify_token(token)
verify_token(token) ==
    IF ~token.decodes
    THEN Err(WebError("unauthorized", "Invalid or expired token"))
    ELSE IF token.exp < AuthNow
    THEN Err(WebError("unauthorized", "Token has expired"))
    ELSE Ok([sub |-> token.sub, role |-> token.role, jti |-> token.jti])

\* extract_token(headers)
extract_token(headers) ==
    IF IsSome(headers.authorization) /\ Unwrap(headers.authorization).scheme = "Bearer"
    THEN Some(Unwrap(headers.authorization).token)
    ELSE None

\* extract_api_key(headers)
extract_api_key(headers) ==
    IF IsSome(headers.x_api_key) THEN headers.x_api_key
    ELSE IF IsSome(headers.authorization) /\ Unwrap(headers.authorization).scheme = "ApiKey"
    THEN Some(Unwrap(headers.authorization).key)
    ELSE None

\* validate_session(session_id)
validate_session(factory, session_id) ==
    IF IsSome(factory)
    THEN IF ~Unwrap(factory).up
         THEN Err(WebError("internal", "Session validation failed"))
         ELSE IF session_id \in Unwrap(factory).sessions
         THEN Ok(Some("user123"))
         ELSE Ok(None)
    ELSE Ok(Some("user123"))

\* The role of an API key's permissions.
RoleOfPermissions(permissions) ==
    CASE permissions = "Admin" -> "admin"
      [] permissions = "Full" -> "service"
      [] permissions = "ReadOnly" -> "readonly"
      [] permissions = "ExecuteOnly" -> "user"

\* validate_api_key(api_key)
validate_api_key(factory, api_key) ==
    IF IsSome(factory)
    THEN LET key_hash == hash_api_key(api_key)
         IN  IF ~Unwrap(factory).up
             THEN Err(WebError("internal", "API key validation failed"))
             ELSE IF key_hash \in DOMAIN Unwrap(factory).api_keys
             THEN Ok(Some(<<"key-owner", RoleOfPermissions(Unwrap(factory).api_keys[key_hash])>>))
             ELSE Ok(None)
    ELSE IF api_key = "demo-api-key"
    THEN Ok(Some(<<"api-user", "service">>))
    ELSE Ok(None)

\* The second half of authenticate: the API key, then Unauthorized.
AuthenticateApiKey(factory, headers) ==
    LET api_key == extract_api_key(headers)
        found == validate_api_key(factory, Unwrap(api_key))
    IN  IF IsSome(api_key) /\ found.ok /\ IsSome(found.value)
        THEN Ok(AuthContextAuthenticated(Unwrap(found.value)[1], Unwrap(found.value)[2],
                                         "generated"))
        ELSE Err(WebError("unauthorized", "Authentication required"))

\* authenticate, returning as soon as a Bearer token is refused.
authenticateJwtOnly(require_auth, factory, headers) ==
    LET token == extract_token(headers)
        claims == verify_token(Unwrap(token))
        session == validate_session(factory, claims.value.jti)
    IN  IF ~require_auth THEN Ok(AuthContextDefault)
        ELSE IF IsSome(token)
        THEN IF claims.ok /\ session.ok /\ IsSome(session.value)
             THEN Ok(AuthContextAuthenticated(claims.value.sub, claims.value.role,
                                              claims.value.jti))
             ELSE Err(WebError("unauthorized", "Authentication required"))
        ELSE AuthenticateApiKey(factory, headers)

\* authenticate(headers)
authenticate(require_auth, factory, headers) ==
    LET token == extract_token(headers)
        claims == verify_token(Unwrap(token))
        session == validate_session(factory, claims.value.jti)
    IN  IF ~require_auth THEN Ok(AuthContextDefault)
        ELSE IF IsSome(token) /\ claims.ok /\ session.ok /\ IsSome(session.value)
        THEN Ok(AuthContextAuthenticated(claims.value.sub, claims.value.role,
                                         claims.value.jti))
        ELSE AuthenticateApiKey(factory, headers)

\* auth_middleware: a request is authenticated by a manager built from a
\* configuration, with or without repositories.  sessions_held are the
\* sessions that exist and are valid when the request arrives: the ones the
\* manager's repositories hold, when it has repositories.
Authenticate ==
    /\ authRun = None
    /\ \E require_auth \in BOOLEAN, headers \in HeaderMaps,
          factory \in { None } \cup { Some(r) : r \in RepositoryFactories },
          sessions_held \in SUBSET { "s1" } :
         /\ IsSome(factory) => sessions_held = Unwrap(factory).sessions
         /\ authRun' = Some([require_auth |-> require_auth,
                             factory |-> factory,
                             sessions |-> sessions_held,
                             headers |-> headers,
                             result |-> authenticate(require_auth, factory, headers)])
    /\ UNCHANGED <<notAuth, permitted>>

\* auth_middleware: the request goes on with its context, or the error is
\* returned; the next request can be served.
AuthMiddlewareReturns ==
    /\ authRun # None
    /\ authRun' = None
    /\ UNCHANGED <<notAuth, permitted>>

\* The contexts a guard may be given: AuthContext's fields are public.
AuthContexts ==
    [user_id : { "anonymous", "user123", "api-user" }, role : Roles,
     session_id : { "none", "s1", "generated" }, is_authenticated : BOOLEAN]

\* A guard asks a context for its permissions.
AskPermissions ==
    /\ \E ctx \in AuthContexts :
         permitted' = Some([ctx |-> ctx,
                            can_admin |-> can_admin(ctx),
                            can_write |-> can_write(ctx),
                            can_read |-> can_read(ctx),
                            can_execute_tasks |-> can_execute_tasks(ctx)])
    /\ UNCHANGED <<notAuth, authRun>>

InitAuth == McpIdle /\ OutsideInit

NextAuth == Authenticate \/ AuthMiddlewareReturns

SpecAuth == InitAuth /\ [][NextAuth]_vars

SpecPermissions == InitAuth /\ [][AskPermissions]_vars

(***************************************************************************)
(* Authentication (under SpecAuth) and permissions (under                  *)
(* SpecPermissions).                                                       *)
(***************************************************************************)
\* The request carries a Bearer token that verifies and whose session
\* validates.
JwtAccepted(r) ==
    /\ IsSome(r.headers.authorization)
    /\ Unwrap(r.headers.authorization).scheme = "Bearer"
    /\ Unwrap(r.headers.authorization).token.decodes
    /\ Unwrap(r.headers.authorization).token.exp >= AuthNow
    /\ IsSome(r.factory) =>
         /\ Unwrap(r.factory).up
         /\ Unwrap(r.headers.authorization).token.jti \in Unwrap(r.factory).sessions

\* The API keys the request carries.
KeysCarried(r) ==
    { k \in ApiKeys :
        \/ r.headers.x_api_key = Some(k)
        \/ r.headers.authorization = Some(ApiKeyScheme(k)) }

\* The request carries an API key that validates: the key the manager reads
\* is X-API-Key when both headers carry one.
ApiKeyAccepted(r) ==
    \E k \in KeysCarried(r) :
        /\ IsSome(r.headers.x_api_key) => r.headers.x_api_key = Some(k)
        /\ IF IsSome(r.factory)
           THEN Unwrap(r.factory).up /\ hash_api_key(k) \in DOMAIN Unwrap(r.factory).api_keys
           ELSE k = "demo-api-key"

\* C22: with require_auth, authenticate returns an authenticated context
\* only for a Bearer token that verifies and whose session validates (the
\* context's identity is the token's claims) or for an API key that
\* validates; a refused token falls through to the API key; every other
\* request gets Unauthorized and never the anonymous context.  Without
\* require_auth it returns the anonymous context whatever the headers.
C22_AuthenticateContract ==
    IsSome(authRun) =>
        LET r == Unwrap(authRun)
            token == Unwrap(r.headers.authorization).token
        IN  IF ~r.require_auth
            THEN r.result = Ok(AuthContextDefault)
            ELSE /\ r.result # Ok(AuthContextDefault)
                 /\ r.result.ok => r.result.value.is_authenticated
                 /\ r.result.ok <=> (JwtAccepted(r) \/ ApiKeyAccepted(r))
                 /\ JwtAccepted(r) =>
                      r.result = Ok(AuthContext(token.sub, token.role, token.jti, TRUE))
                 /\ ~r.result.ok => r.result.error.kind = "unauthorized"

\* A request whose Bearer token is refused and whose X-API-Key validates
\* was authenticated by the key.
C22_Witness ==
    /\ IsSome(authRun)
    /\ Unwrap(authRun).require_auth
    /\ IsSome(extract_token(Unwrap(authRun).headers))
    /\ ~JwtAccepted(Unwrap(authRun))
    /\ ApiKeyAccepted(Unwrap(authRun))
    /\ Unwrap(authRun).result.ok
    /\ Unwrap(authRun).result.value.session_id = "generated"

\* C39: with require_auth, a request whose only credential is a Bearer
\* token that verifies, for a session that does not exist or is no longer
\* valid, is rejected with Unauthorized, by a manager with repositories and
\* by one without.
C39_JwtNeedsLiveSession ==
    IsSome(authRun) =>
        LET r == Unwrap(authRun)
            token == extract_token(r.headers)
        IN  (/\ r.require_auth
             /\ IsSome(token)
             /\ verify_token(Unwrap(token)).ok
             /\ Unwrap(token).jti \notin r.sessions
             /\ KeysCarried(r) = {}) =>
                /\ ~r.result.ok
                /\ r.result.error.kind = "unauthorized"

\* C23: an unauthenticated context can read and can never admin, write or
\* execute tasks; can_admin implies can_write and can_execute_tasks; and
\* can_write and can_execute_tasks hold exactly for the authenticated
\* contexts whose role is admin, user or service.
C23_PermissionLattice ==
    IsSome(permitted) =>
        LET p == Unwrap(permitted)
            writer == p.ctx.is_authenticated /\ p.ctx.role \in { "admin", "user", "service" }
        IN  /\ ~p.ctx.is_authenticated =>
                 p.can_read /\ ~p.can_admin /\ ~p.can_write /\ ~p.can_execute_tasks
            /\ p.can_admin => p.can_write /\ p.can_execute_tasks
            /\ p.can_write <=> writer
            /\ p.can_execute_tasks <=> writer

\* An unauthenticated context whose role is admin was asked.
C23_Witness ==
    /\ IsSome(permitted)
    /\ ~Unwrap(permitted).ctx.is_authenticated
    /\ Unwrap(permitted).ctx.role = "admin"
    /\ Unwrap(permitted).can_read
    /\ ~Unwrap(permitted).can_admin

(***************************************************************************)
(* The task executor over its workers (ratchet-execution: the coordinator  *)
(* of process.rs and worker.rs, whose types lib.rs re-exports).  A call    *)
(* registers a PendingCall under a fresh correlation id in its worker's    *)
(* pending map and sends ExecuteTask; the worker's replies are TaskResult  *)
(* frames read by that worker's demultiplexer, which fulfils the pending   *)
(* call of the frame's correlation id.  A call is resolved by the reply,   *)
(* by its deadline or by a cancel signal, whichever comes first.  A        *)
(* worker may reply in any order, and its stdout may carry a frame twice   *)
(* or a frame whose id was never sent.  A worker writes its next frame     *)
(* once the demultiplexer has read the last one.                           *)
(***************************************************************************)
\* ExecutionOutcome
Success == [kind |-> "Success", retryable |-> FALSE, retry_after |-> None]
Failure(err) ==
    [kind |-> metadata(err).code, retryable |-> is_retryable(err), retry_after |-> retry_delay(err)]

FailureTimeout == Failure(RatchetError("Execution", "Timeout", ""))
FailureCancelled == Failure(RatchetError("Execution", "Cancelled", ""))

\* A call: its worker, its PendingCall's correlation id and cancel flag, the
\* outcome returned to the caller, and how many times it was resolved.
PendingCall(worker, correlation_id) ==
    [worker |-> worker, correlation_id |-> correlation_id, cancel_flag |-> FALSE,
     outcome |-> None, resolutions |-> 0]

\* A correlation id unique among those ever sent to the worker.
FreshCorrelationId(calls, w) == 1 + Cardinality({ c \in DOMAIN calls : calls[c].worker = w })

\* The correlation ids a frame may carry; 0 is never sent.
CorrelationIds == 0..MaxCalls


\* execute_task, steps 3-5: acquire a worker, register the PendingCall and
\* send ExecuteTask, which the worker starts on.
ExecuteTask(w) ==
    /\ Len(ipcCalls) < MaxCalls
    /\ LET id == FreshCorrelationId(ipcCalls, w)
       IN  /\ ipcCalls' = Append(ipcCalls, PendingCall(w, id))
           /\ ipcPending' = [ipcPending EXCEPT ![w] = @ \cup { id }]
           /\ ipcWorking' = [ipcWorking EXCEPT ![w] = @ \cup { id }]
           /\ ipcLast' = None
    /\ UNCHANGED <<notIpc, ipcWire, ipcDelivered>>

\* The worker finishes one of the tasks it is executing, in any order, and
\* writes its TaskResult.
WorkerReplies(w) ==
    /\ ipcWire[w] = None
    /\ \E id \in ipcWorking[w] :
         /\ ipcWire' = [ipcWire EXCEPT ![w] = Some(id)]
         /\ ipcWorking' = [ipcWorking EXCEPT ![w] = @ \ { id }]
    /\ ipcLast' = None
    /\ UNCHANGED <<notIpc, ipcCalls, ipcPending, ipcDelivered>>

\* The worker's stdout carries a TaskResult of a task the worker is not
\* executing: a second frame of a task replied to, or an id never sent.
WorkerRepeats(w) ==
    /\ ipcWire[w] = None
    /\ \E id \in CorrelationIds \ ipcWorking[w] :
         ipcWire' = [ipcWire EXCEPT ![w] = Some(id)]
    /\ ipcLast' = None
    /\ UNCHANGED <<notIpc, ipcCalls, ipcPending, ipcWorking, ipcDelivered>>

\* The call of a worker's correlation id.
CallOf(calls, w, id) ==
    CHOOSE c \in DOMAIN calls : calls[c].worker = w /\ calls[c].correlation_id = id

Resolve(pending_call, outcome) ==
    [pending_call EXCEPT !.outcome = Some(outcome), !.resolutions = @ + 1]

\* The demultiplexer of a worker that fulfils whatever call the frame names,
\* pending or not.
DemultiplexAnyCall(w) ==
    /\ IsSome(ipcWire[w])
    /\ LET id == Unwrap(ipcWire[w])
       IN  /\ ipcWire' = [ipcWire EXCEPT ![w] = None]
           /\ IF \E c \in DOMAIN ipcCalls :
                    ipcCalls[c].worker = w /\ ipcCalls[c].correlation_id = id
              THEN /\ ipcCalls' = [ipcCalls EXCEPT ![CallOf(ipcCalls, w, id)] = Resolve(@, Success)]
                   /\ ipcPending' = [ipcPending EXCEPT ![w] = @ \ { id }]
                   /\ ipcDelivered' = ipcDelivered \cup { <<w, id>> }
              ELSE UNCHANGED <<ipcCalls, ipcPending, ipcDelivered>>
    /\ ipcLast' = None
    /\ UNCHANGED <<notIpc, ipcWorking>>

\* The demultiplexer of a worker reads the next TaskResult: it fulfils the
\* pending call of its correlation id and removes it from the map, or
\* discards the frame when the map has no such entry.
Demultiplex(w) ==
    /\ IsSome(ipcWire[w])
    /\ LET id == Unwrap(ipcWire[w])
       IN  /\ ipcWire' = [ipcWire EXCEPT ![w] = None]
           /\ IF id \in ipcPending[w]
              THEN /\ ipcCalls' = [ipcCalls EXCEPT ![CallOf(ipcCalls, w, id)] = Resolve(@, Success)]
                   /\ ipcPending' = [ipcPending EXCEPT ![w] = @ \ { id }]
                   /\ ipcDelivered' = ipcDelivered \cup { <<w, id>> }
              ELSE UNCHANGED <<ipcCalls, ipcPending, ipcDelivered>>
    /\ ipcLast' = None
    /\ UNCHANGED <<notIpc, ipcWorking>>

\* The deadline of a call elapses, its pending call staying in the map.
DeadlineElapsesKeepsEntry(c) ==
    /\ c \in DOMAIN ipcCalls
    /\ ipcCalls[c].outcome = None
    /\ ipcCalls' = [ipcCalls EXCEPT ![c] = Resolve(@, FailureTimeout)]
    /\ ipcLast' = None
    /\ UNCHANGED <<notIpc, ipcPending, ipcWorking, ipcWire, ipcDelivered>>

\* execute_task, step 7: the deadline of a call elapses before its slot is
\* fulfilled; the pending call is abandoned and the caller gets Timeout.
DeadlineElapses(c) ==
    /\ c \in DOMAIN ipcCalls
    /\ ipcCalls[c].outcome = None
    /\ ipcCalls' = [ipcCalls EXCEPT ![c] = Resolve(@, FailureTimeout)]
    /\ ipcPending' = [ipcPending EXCEPT ![ipcCalls[c].worker] = @ \ { ipcCalls[c].correlation_id }]
    /\ ipcLast' = None
    /\ UNCHANGED <<notIpc, ipcWorking, ipcWire, ipcDelivered>>

\* A cancel signal that resolves the call with Cancelled every time.
CancelResolvesAgain(c) ==
    /\ c \in DOMAIN ipcCalls
    /\ ipcCalls' = [ipcCalls EXCEPT ![c] = [Resolve(@, FailureCancelled) EXCEPT !.cancel_flag = TRUE]]
    /\ ipcPending' = [ipcPending EXCEPT ![ipcCalls[c].worker] = @ \ { ipcCalls[c].correlation_id }]
    /\ ipcLast' = Some(c)
    /\ UNCHANGED <<notIpc, ipcWorking, ipcWire, ipcDelivered>>

\* A cancel signal for a call: the cancel flag is set, and a call not yet
\* resolved is resolved with Cancelled and its slot abandoned.  The worker
\* is not told.
Cancel(c) ==
    /\ c \in DOMAIN ipcCalls
    /\ ipcCalls' = [ipcCalls EXCEPT ![c] =
                       IF @.outcome = None
                       THEN [Resolve(@, FailureCancelled) EXCEPT !.cancel_flag = TRUE]
                       ELSE [@ EXCEPT !.cancel_flag = TRUE]]
    /\ ipcPending' = [ipcPending EXCEPT ![ipcCalls[c].worker] = @ \ { ipcCalls[c].correlation_id }]
    /\ ipcLast' = Some(c)
    /\ UNCHANGED <<notIpc, ipcWorking, ipcWire, ipcDelivered>>

InitIpc == McpIdle /\ OutsideInit

NextIpc ==
    \/ \E w \in Workers : ExecuteTask(w) \/ WorkerReplies(w) \/ WorkerRepeats(w) \/ Demultiplex(w)
    \/ \E c \in 1..MaxCalls : DeadlineElapses(c) \/ Cancel(c)

SpecIpc == InitIpc /\ [][NextIpc]_vars

(***************************************************************************)
(* Correlation, deadlines and cancellation (under SpecIpc).                *)
(***************************************************************************)
\* The calls whose ExecuteTask went to a worker under a correlation id.
SentWith(w, id) ==
    { c \in DOMAIN ipcCalls : ipcCalls[c].worker = w /\ ipcCalls[c].correlation_id = id }

\* C24: every TaskResult handed to a caller carries the correlation id of
\* exactly one ExecuteTask sent to the same worker, and a call is fulfilled
\* at most once: a second frame with the same id, or a frame with an
\* unknown id, is discarded, in whatever order the replies arrive.
C24_ResultMatchesOneRequest ==
    /\ \A d \in ipcDelivered :
         /\ Cardinality(SentWith(d[1], d[2])) = 1
         /\ d[2] \notin ipcPending[d[1]]
         /\ \A c \in SentWith(d[1], d[2]) : ipcCalls[c].outcome = Some(Success)
    /\ \A c \in DOMAIN ipcCalls :
         /\ ipcCalls[c].outcome = Some(Success) =>
              /\ <<ipcCalls[c].worker, ipcCalls[c].correlation_id>> \in ipcDelivered
              /\ ipcCalls[c].resolutions = 1
         /\ ipcCalls[c].correlation_id \in ipcPending[ipcCalls[c].worker] =>
              ipcCalls[c].outcome = None

\* A worker's stdout carries a second frame of a call already fulfilled
\* while a later call of that worker is fulfilled too: replies out of order
\* and a duplicate.
C24_Witness ==
    \E w \in Workers :
        /\ <<w, 2>> \in ipcDelivered
        /\ ipcWire[w] = Some(2)
        /\ 1 \in ipcPending[w]

\* C25: a call is resolved exactly once.  When its deadline elapses first
\* the caller gets Failure(Timeout, retryable, retry_after 2 s), the
\* pending call leaves the worker's map, and a reply read afterwards
\* neither changes the outcome nor resolves the call again.
C25_ResolvedExactlyOnce ==
    \A c \in DOMAIN ipcCalls :
        /\ ipcCalls[c].resolutions <= 1
        /\ ipcCalls[c].outcome = None <=> ipcCalls[c].resolutions = 0
        /\ ipcCalls[c].outcome # None =>
             ipcCalls[c].correlation_id \notin ipcPending[ipcCalls[c].worker]
        /\ ipcCalls[c].outcome \notin { None, Some(Success), Some(FailureCancelled) } =>
             /\ Unwrap(ipcCalls[c].outcome).kind = "EXECUTION_TIMEOUT"
             /\ Unwrap(ipcCalls[c].outcome).retryable
             /\ Unwrap(ipcCalls[c].outcome).retry_after = Some(2000)
             /\ <<ipcCalls[c].worker, ipcCalls[c].correlation_id>> \notin ipcDelivered

\* A call timed out, and its worker's late reply has been read since.
C25_Witness ==
    \E c \in DOMAIN ipcCalls :
        /\ ipcCalls[c].outcome = Some(FailureTimeout)
        /\ ipcCalls[c].correlation_id \notin ipcWorking[ipcCalls[c].worker]
        /\ ipcWire[ipcCalls[c].worker] = None
        /\ ipcCalls[c].resolutions = 1

\* C26: a cancel signal resolves a call not yet resolved with Cancelled and
\* leaves the worker alone; cancelling a call already resolved leaves its
\* outcome, and cancelling a call already cancelled leaves the whole
\* coordinator state, as it was.
C26_CancelIdempotent ==
    [][\A c \in DOMAIN ipcCalls :
         ipcLast' = Some(c) =>
           /\ ipcWorking' = ipcWorking /\ ipcWire' = ipcWire
           /\ ipcCalls'[c].outcome = IF ipcCalls[c].outcome = None
                                     THEN Some(FailureCancelled)
                                     ELSE ipcCalls[c].outcome
           /\ ipcCalls'[c].resolutions = 1
           /\ ipcCalls[c].cancel_flag =>
                /\ ipcCalls' = ipcCalls
                /\ ipcPending' = ipcPending
                /\ ipcDelivered' = ipcDelivered]_vars

\* A call fulfilled by its worker's reply has been cancelled afterwards.
C26_Witness ==
    \E c \in DOMAIN ipcCalls :
        /\ ipcLast = Some(c)
        /\ ipcCalls[c].cancel_flag
        /\ ipcCalls[c].outcome = Some(Success)

(***************************************************************************)
(* Inherited correlations and the single-request dispatcher (under Spec).  *)
(***************************************************************************)
\* The handler's caller passed its own correlation id.
Inherited == ~Idle /\ IsSome(Unwrap(call).ctx.request_id)

\* C27: a tools/list or tools/call invoked with an inherited
\* security_ctx.request_id never calls complete_request (nor
\* start_request), on success, denial or tool failure; the correlation
\* metadata, the tool metric and the audit record it writes carry the
\* inherited id, and a call that reaches the tool writes all three.
C27_InheritedCorrelationNotCompleted ==
    Inherited =>
        \A c \in HandledCalls("tools/list") \cup HandledCalls("tools/call") :
            /\ ~Did(c, "complete_request")
            /\ ~Did(c, "start_request")
            /\ \A i \in 1..Len(c.effects) :
                 c.effects[i].op \in { "add_request_metadata", "record_tool_execution",
                                       "log_tool_execution" } =>
                     c.effects[i].id = Unwrap(Unwrap(call).ctx.request_id)
            /\ Did(c, "execute_tool") =>
                 /\ Did(c, "add_request_metadata")
                 /\ Did(c, "record_tool_execution")
                 /\ Did(c, "log_tool_execution")
            /\ c.result.ok => Did(c, "log_tool_execution")

\* A tools/call invoked with an inherited id reached a tool that failed,
\* and its audit record carries the inherited id.
C27_Witness ==
    /\ Inherited
    /\ \E c \in HandledCalls("tools/call") :
         /\ Did(c, "execute_tool")
         /\ ~c.result.ok
         /\ \E i \in 1..Len(c.effects) :
              /\ c.effects[i].op = "log_tool_execution"
              /\ c.effects[i].id = InheritedId

\* The methods of the single-request dispatcher.
SingleRequestMethods == { "tools/list", "tools/call", "resources/list", "resources/read" }

\* C28: an item of a batch whose method is tools/list, tools/call,
\* resources/list or resources/read goes to its handler and is never
\* answered MethodNotFound; an item of any other method, a nested batch
\* included, is answered MethodNotFound (-32601) with no handler run, so
\* nothing of a nested batch is processed; and handle_batch without a
\* batch processor returns MethodNotFound and dispatches nothing.
C28_DispatcherMethods ==
    (~Idle /\ Unwrap(call).method = "batch") =>
        /\ ~batchProcessor =>
             /\ Unwrap(call).result = Err(McpErr("MethodNotFound", "batch"))
             /\ Unwrap(call).items = <<>>
             /\ Unwrap(call).effects = <<>>
        /\ \A i \in 1..Len(Unwrap(call).items) :
             LET item == Unwrap(call).items[i]
             IN  IF item.request.method \in SingleRequestMethods
                 THEN item.result.ok \/ item.result.error.kind # "MethodNotFound"
                 ELSE /\ item.result = Err(McpErr("MethodNotFound", item.request.method))
                      /\ item.effects = <<>>
                      /\ Unwrap(item.response.error).code = -32601

\* A batch held a nested batch, answered MethodNotFound, next to a
\* tools/list that was served.
C28_Witness ==
    /\ ~Idle
    /\ Unwrap(call).method = "batch"
    /\ \E i, j \in 1..Len(Unwrap(call).items) :
         /\ Unwrap(call).items[i].request.method = "batch"
         /\ Unwrap(call).items[i].result = Err(McpErr("MethodNotFound", "batch"))
         /\ Unwrap(call).items[j].request.method = "tools/list"
         /\ Unwrap(call).items[j].result.ok

(***************************************************************************)
(* Retries (under SpecRetry).                                              *)
(***************************************************************************)
\* C29: a retry request answered Ok named a Failed execution and added one
\* execution to the repository: Pending, of the same task, with the
\* request's input or else the original's, the executions already there
\* unchanged; a request naming an execution in any other status is answered
\* BadRequest, and every request not answered Ok leaves the repository as
\* it was.
C29_RetryOnlyFailed ==
    [][IsSome(retried') =>
         LET r == Unwrap(retried')
         IN  IF r.status = "Ok"
             THEN /\ r.id \in DOMAIN executions
                  /\ executions[r.id].status = "Failed"
                  /\ Len(executions') = Len(executions) + 1
                  /\ \A id \in DOMAIN executions : executions'[id] = executions[id]
                  /\ executions'[Len(executions')].status = "Pending"
                  /\ executions'[Len(executions')].task_id = executions[r.id].task_id
                  /\ executions'[Len(executions')].input =
                       IF IsSome(r.input) THEN Unwrap(r.input) ELSE executions[r.id].input
             ELSE /\ executions' = executions
                  /\ (r.db_ok /\ r.id \in DOMAIN executions
                      /\ executions[r.id].status # "Failed") => r.status = "BadRequest"]_vars

\* A Failed execution whose input is not the one create requests carry was
\* retried without a new input.
C29_Witness ==
    /\ IsSome(retried)
    /\ Unwrap(retried).status = "Ok"
    /\ Unwrap(retried).input = None
    /\ executions[Unwrap(retried).id].input = "in2"
    /\ executions[Len(executions)].input = "in2"
    /\ executions[Len(executions)].status = "Pending"

(***************************************************************************)
(* The MCP service (ratchet-mcp/src/server/service.rs): McpService over    *)
(* its server, with the JoinHandle of the server task it spawned for the   *)
(* SSE transport.  A spawned task is alive until the server's start()      *)
(* returns in it or it is aborted; a JoinHandle that is dropped detaches   *)
(* its task, which goes on running.                                        *)
(***************************************************************************)
Transports == { "stdio", "sse" }

\* The server tasks alive.
Alive(tasks) == { t \in ServerTasks : tasks[t] = "alive" }

\* is_running(): whether the task of the handle kept has not finished;
\* without a handle, whether the transport is stdio.
is_running(handle, tasks, kind) ==
    IF IsSome(handle)
    THEN tasks[Unwrap(handle)] # "finished"
    ELSE kind = "stdio"

\* health_check(): healthy exactly when is_running(), with the transport
\* in its metadata.
health_check(handle, tasks, kind) ==
    [healthy |-> is_running(handle, tasks, kind), transport |-> kind]

\* McpService::new(config, ..)
NewService ==
    /\ serviceCall = None
    /\ server_handle = None
    /\ Alive(serverTasks) = {}
    /\ \E kind \in Transports :
         /\ transport' = kind
         /\ serviceCall' = Some([op |-> "new", is_running |-> FALSE, healthy |-> FALSE])
    /\ UNCHANGED <<notService, server_handle, serverTasks, stopped>>

\* start(): over stdio the server runs in the caller until it ends; over
\* SSE a task is spawned for it and its handle replaces the one kept.
Start ==
    /\ IsSome(serviceCall)
    /\ IF transport = "stdio"
       THEN UNCHANGED <<server_handle, serverTasks>>
       ELSE \E t \in ServerTasks :
              /\ serverTasks[t] = "unspawned"
              /\ \A u \in ServerTasks : u < t => serverTasks[u] # "unspawned"
              /\ serverTasks' = [serverTasks EXCEPT ![t] = "alive"]
              /\ server_handle' = Some(t)
    /\ stopped' = FALSE
    /\ serviceCall' = Some([op |-> "start", is_running |-> FALSE, healthy |-> FALSE])
    /\ UNCHANGED <<notService, transport>>

\* The server's start() returns inside a spawned task: the task finishes.
ServerTaskEnds ==
    /\ \E t \in Alive(serverTasks) :
         serverTasks' = [serverTasks EXCEPT ![t] = "finished"]
    /\ UNCHANGED <<notService, transport, server_handle, stopped, serviceCall>>

\* stop(): the handle kept, if any, is taken and its task aborted.
Stop ==
    /\ IsSome(serviceCall)
    /\ IF IsSome(server_handle)
       THEN /\ serverTasks' = [serverTasks EXCEPT ![Unwrap(server_handle)] = "finished"]
            /\ server_handle' = None
       ELSE UNCHANGED <<server_handle, serverTasks>>
    /\ stopped' = TRUE
    /\ serviceCall' = Some([op |-> "stop", is_running |-> FALSE, healthy |-> FALSE])
    /\ UNCHANGED <<notService, transport>>

\* is_running() is asked.
IsRunning ==
    /\ IsSome(serviceCall)
    /\ serviceCall' = Some([op |-> "is_running",
                            is_running |-> is_running(server_handle, serverTasks, transport),
                            healthy |-> FALSE])
    /\ UNCHANGED <<notService, transport, server_handle, serverTasks, stopped>>

\* health_check() is asked.
HealthCheck ==
    /\ IsSome(serviceCall)
    /\ serviceCall' = Some([op |-> "health_check",
                            is_running |-> is_running(server_handle, serverTasks, transport),
                            healthy |-> health_check(server_handle, serverTasks, transport).healthy])
    /\ UNCHANGED <<notService, transport, server_handle, serverTasks, stopped>>

InitService == McpIdle /\ OutsideInit

NextService == NewService \/ Start \/ ServerTaskEnds \/ Stop \/ IsRunning \/ HealthCheck

SpecService == InitService /\ [][NextService]_vars

(***************************************************************************)
(* Stopping the service (under SpecService).                               *)
(***************************************************************************)
\* C31: once stop() has returned, and until the next start(), is_running()
\* answers false and health_check answers unhealthy, over SSE and over
\* stdio; a second stop() changes nothing.
C31_StoppedIsNotRunning ==
    /\ (stopped /\ IsSome(serviceCall) /\ Unwrap(serviceCall).op = "is_running") =>
          ~Unwrap(serviceCall).is_running
    /\ (stopped /\ IsSome(serviceCall) /\ Unwrap(serviceCall).op = "health_check") =>
          ~Unwrap(serviceCall).healthy
    /\ stopped => server_handle = None

\* C36: over SSE at most one spawned server task is alive, the one whose
\* handle is kept; and once stop() has returned, and until the next
\* start(), none is alive.
C36_OneServerTask ==
    transport = "sse" =>
        /\ Alive(serverTasks) \subseteq { t \in ServerTasks : server_handle = Some(t) }
        /\ stopped => Alive(serverTasks) = {}

====
